---------------------------- MODULE Spec2Model ----------------------------
(***************************************************************************)
(* pyEPGGrabber: the run coordinator EPGGrabber.grab_epg (epg.py), the     *)
(* final sort and hand-over to the writer, and the normalization pipeline  *)
(* EPGProcessor.process_program (epg_processor.py).                        *)
(*                                                                         *)
(* Three specifications share the variables:                               *)
(*   Spec        one call of grab_epg from its first line;                 *)
(*   SpecRender  grab_epg from line 141 (sort, write, finally) with every  *)
(*               bounded record list in all_programs;                      *)
(*   SpecProc    one call of process_program, one action per pass.         *)
(*                                                                         *)
(* Text is modelled as a sequence of tokens: a token is a word or a fixed  *)
(* phrase, the separators " - " and ":" are the tokens "-" and ":", and    *)
(* tokens are joined by single blanks.  Python's None is the one-token     *)
(* text <<"<None>">>, so that None and "" stay different values.           *)
(***************************************************************************)
EXTENDS Integers, Sequences, FiniteSets, TLC

VARIABLES
    pc,             \* control point of grab_epg
    services,       \* argument `services`
    days,           \* argument `days`
    channel_id,     \* argument `channel_id`
    si, ci, di,     \* positions of the three nested loops
    service_config, \* local service_config: name of the loaded descriptor
    services_cache, \* EPGConfig._services_cache
    all_items,      \* raw entries of the current channel
    all_programs,   \* canonical records accumulated by the run
    fetched,        \* history: <<service, channel, day>> of every fetch call
    payloads,       \* history: payloads that fetch returned
    failed,         \* history: <<service, channel, day>> of every failed iteration
    errors,         \* EPGLogger.stats['errors']
    exc,            \* exception in flight
    output_path,    \* local output_path
    writes,         \* history: record lists handed to write_xml
    visited,        \* history: control points the run went through
    stage,          \* process_program: the pass that runs next
    raw_program,    \* process_program: argument raw_program
    spa,            \* module global spa: TRUE when sports_api imported, else None
    mappings,       \* EPGConfig: the loaded mapping tables (name of the file's content)
    prog,           \* process_program: local `processed`
    perr,           \* process_program: exception raised by a pass
    handlers,       \* history: the blocks of _process_by_channel that ran
    call_pc,        \* a single call of a helper: where the call is
    call_arg,       \* a single call of a helper: its arguments
    call_ret        \* a single call of a helper: what it returned

runVars == <<pc, services, days, channel_id, si, ci, di, service_config,
             services_cache, all_items, all_programs, fetched, payloads,
             failed, errors, exc, output_path, writes, visited>>

procVars == <<stage, raw_program, spa, mappings, prog, perr, handlers>>

callVars == <<call_pc, call_arg, call_ret>>

vars == <<runVars, procVars, callVars>>

-----------------------------------------------------------------------------
(* Bounds of the model *)

MaxDays == 1
MaxServices == 2
MaxEntries == 1
MaxPrograms == 3
MaxChannel == 2
MaxTime == 1

-----------------------------------------------------------------------------
(* Python values *)

NoneS == <<"<None>">>
Unbound == "<unbound>"
NoExc == "None"

-----------------------------------------------------------------------------
(* Service descriptors: the files under services/ that load_service_config  *)
(* reads.  "missing" has no file.                                           *)

ServiceNames == {"globoplay", "claro", "vivo", "missing"}

Catalog ==
    [n \in ServiceNames |->
        CASE n = "globoplay" ->
                [exists |-> TRUE, no_loop |-> FALSE, list_url |-> FALSE,
                 placeholder |-> FALSE, channels |-> <<1, 2>>]
          [] n = "claro" ->
                [exists |-> TRUE, no_loop |-> TRUE, list_url |-> FALSE,
                 placeholder |-> FALSE, channels |-> <<>>]
          [] n = "vivo" ->
                [exists |-> TRUE, no_loop |-> FALSE, list_url |-> TRUE,
                 placeholder |-> TRUE, channels |-> <<1, 2>>]
          [] OTHER ->
                [exists |-> FALSE, no_loop |-> FALSE, list_url |-> FALSE,
                 placeholder |-> FALSE, channels |-> <<>>]]

\* EPGConfig.get_all_services: the stems of services/*.yaml
get_all_services == <<"claro", "globoplay", "vivo">>

\* day_range of grab_epg: [days] when no_loop, else range(days + 1)
day_range(cfg, d) ==
    IF cfg.no_loop THEN <<d>>
    ELSE [i \in 1..(IF d + 1 > 0 THEN d + 1 ELSE 0) |-> i - 1]

\* channel_list of grab_epg; 0 stands for the id "0"
channel_list(cfg, cid) ==
    IF cfg.list_url /\ cfg.placeholder THEN <<0>>
    ELSE IF cid # 0 THEN <<cid>>
    ELSE IF cfg.channels # <<>> THEN cfg.channels
    ELSE <<0>>

\* list_id_channel: the whole configured list (-1) for a list-in-url service
list_id_channel(cfg, each_channel) ==
    IF cfg.list_url /\ cfg.placeholder THEN -1 ELSE each_channel


-----------------------------------------------------------------------------
(* The fetcher as grab_epg sees it *)

\* def extract_programs(self, data, service_config): parameters after self
ExtractParams == 2
\* self.fetcher.extract_programs(data, service_config, channel_name)
ExtractArgs == 3

\* A payload holds the raw entries of one (service, channel, day); an entry of
\* the model keeps what the run reads of it: where it came from (uid), its
\* channel, its start time and whether the payload gives it a title.
Entry(s, c, d, k, titled) ==
    [uid |-> <<s, c, d, k>>, channel |-> c, start_time |-> d, has_title |-> titled]

\* What EPGFetcher.fetch can return for one call: every payload of at most
\* MaxEntries entries.  fetch raises Exception on a transport error.
Payloads(s, c, d) ==
    {<<>>} \cup
    UNION {{[k \in 1..n |-> Entry(s, c, d, k, t)] : t \in BOOLEAN} : n \in 1..MaxEntries}

\* EPGFetcher.extract_programs: the entries with a title, in payload order
extract_programs(data) == SelectSeq(data, LAMBDA e : e.has_title)

\* The call of line 109: Python binds the arguments before the body runs and
\* raises TypeError when their number is not the number of parameters.
call_extract_programs(data) ==
    IF ExtractArgs # ExtractParams
    THEN [raised |-> "TypeError", programs |-> <<>>]
    ELSE [raised |-> NoExc, programs |-> extract_programs(data)]

\* EPGLogger.log_exception after increment_stat: returns when the exception
\* carries no traceback frame, else prints and ends in sys.exit(1).
log_exception(frames) == IF frames = 0 THEN "return" ELSE "SystemExit"

\* Frames of the traceback of an exception caught at line 115: the frame of
\* grab_epg itself, and the frame of fetch when fetch raised it.
TracebackFrames(type) == IF type = "Exception" THEN 2 ELSE 1

\* process_program as the run sees it: channel and start_time are copied into
\* the record (lines 40 and 44) and no pass writes them again.
process_program_record(raw) ==
    [uid |-> raw.uid, channel |-> raw.channel, start_time |-> raw.start_time]

-----------------------------------------------------------------------------
(* The final sort, line 141: list.sort(key=(channel, start_time)), stable.   *)
(* A start_time >= 0 is a datetime; a negative one is a date string that     *)
(* _parse_datetime passed through, which Python cannot order with a datetime. *)

IsDatetime(t) == t >= 0

Comparable(a, b) ==
    a.channel # b.channel \/ (IsDatetime(a.start_time) <=> IsDatetime(b.start_time))

KeyLE(a, b) ==
    \/ a.channel < b.channel
    \/ (a.channel = b.channel /\ a.start_time <= b.start_time)

\* r placed after every element of the sorted list s that is not greater
InsertSorted(r, s) ==
    LET n == Cardinality({i \in 1..Len(s) : KeyLE(s[i], r)})
    IN  SubSeq(s, 1, n) \o <<r>> \o SubSeq(s, n + 1, Len(s))

RECURSIVE SortMutant(_)
SortMutant(s) ==
    IF Len(s) <= 1 THEN s
    ELSE LET rest == SortMutant(SubSeq(s, 1, Len(s) - 1))
             r == s[Len(s)]
             n == Cardinality({i \in 1..Len(rest) : rest[i].start_time <= r.start_time})
         IN  SubSeq(rest, 1, n) \o <<r>> \o SubSeq(rest, n + 1, Len(rest))

RECURSIVE SortPrograms(_)
SortPrograms(s) ==
    IF Len(s) <= 1 THEN s
    ELSE InsertSorted(s[Len(s)], SortPrograms(SubSeq(s, 1, Len(s) - 1)))

\* The comparisons of the sort raise TypeError when two records of one channel
\* hold start times of different kinds.
SortRaises(s) == \E i, j \in 1..Len(s) : ~Comparable(s[i], s[j])

\* EPGWriter._format_datetime calls strftime on start_time: AttributeError on
\* a string.
WriteRaises(s) == \E i \in 1..Len(s) : ~IsDatetime(s[i].start_time)


-----------------------------------------------------------------------------
(* Text as token sequences *)

FalseS == <<"<False>">>
NoneStr == "<None>"
TrueStr == "<True>"
NoneInt == 0 - 1000

\* Python truthiness of a text value: None, False and "" are falsy
Falsy(t) == t = <<>> \/ t = NoneS \/ t = FalseS

\* The tokens of s at the indices in K, in order
KeepIdx(s, K) ==
    LET F[i \in 0..Len(s)] ==
            IF i = 0 THEN <<>>
            ELSE IF i \in K THEN Append(F[i - 1], s[i]) ELSE F[i - 1]
    IN  F[Len(s)]

DropIdx(s, D) == KeepIdx(s, (1..Len(s)) \ D)

MinOf(S) == CHOOSE x \in S : \A y \in S : x <= y
MaxOf(S) == CHOOSE x \in S : \A y \in S : y <= x

\* re.sub(r"\s?-?\s?" + pattern, "", text): the tokens at M go, and with each
\* the separator token (one of seps) that stands right before it
DropWithSep(s, M, seps) ==
    DropIdx(s, M \cup {i - 1 : i \in {j \in M : j > 1 /\ s[j - 1] \in seps /\ (j - 1) \notin M}})

\* `" - " in text`: a separator token with text on both sides
HasSep(s) == \E i \in 2..(Len(s) - 1) : s[i] = "-"

\* text.split(" - ", 1)
SplitIdx(s) == MinOf({i \in 2..(Len(s) - 1) : s[i] = "-"})
SplitHead(s) == SubSeq(s, 1, SplitIdx(s) - 1)
SplitTail(s) == SubSeq(s, SplitIdx(s) + 1, Len(s))

\* str.lower() of the tokens whose case the code looks at
Lower(t) ==
    CASE t \in {"Ao Vivo", "AO VIVO", "ao vivo"} -> "ao vivo"
      [] t \in {"VIVO", "Vivo"} -> "vivo"
      [] t \in {"Inédito", "INÉDITO"} -> "inédito"
      [] t = "Estreia" -> "estreia"
      [] t = "Reprise" -> "reprise"
      [] t = "Reapresentação" -> "reapresentação"
      [] t = "VT" -> "vt"
      [] t = "Retrô" -> "retrô"
      [] t = "Premiere Retrô" -> "premiere retrô"
      [] t = "Corujão I" -> "corujão i"
      [] t = "Tela Quente" -> "tela quente"
      [] t = "TELA QUENTE" -> "tela quente"
      [] t = "Supercine" -> "supercine"
      [] OTHER -> t

-----------------------------------------------------------------------------
(* Pass 1: EPGProcessor._extract_date *)

\* Tokens that match \b(\d{1,2}/\d{1,2}/\d{2,4}|\d{6,8})\b
DateToks == {"25/12/2024", "010223", "5/1/24", "5/1/2024"}

\* len(date_str), the slashes removed
DateDigits(t) ==
    CASE t = "25/12/2024" -> 8
      [] t = "5/1/24" -> 4
      [] OTHER -> 6

\* strptime on "512024" with %d%m%y leaves "4" unconverted
StrptimeRaises(t) == t = "5/1/2024"

\* The date that strptime/strftime make of a token of six or eight digits
DateOf(t) == IF t = "25/12/2024" THEN "25/12/2024" ELSE "01/02/2023"

DateIdx(text) == {i \in 1..Len(text) : text[i] \in DateToks}

\* One field: the first match gives the date; re.sub removes every occurrence
\* of the matched text, each with an optional dash before it
extract_date_text(text) ==
    IF Falsy(text) \/ DateIdx(text) = {} THEN text
    ELSE LET tok == text[MinOf(DateIdx(text))]
         IN  DropWithSep(text, {i \in 1..Len(text) : text[i] = tok}, {"-"})

\* Lines 110-117: only a token of six or eight digits is converted
extract_date_value(text, before) ==
    IF Falsy(text) \/ DateIdx(text) = {} THEN before
    ELSE IF DateDigits(text[MinOf(DateIdx(text))]) \in {6, 8}
    THEN DateOf(text[MinOf(DateIdx(text))])
    ELSE before

\* The ValueError of strptime leaves _extract_date
field_date_raises(text) ==
    /\ ~Falsy(text)
    /\ DateIdx(text) # {}
    /\ StrptimeRaises(text[MinOf(DateIdx(text))])

extract_date_raises(p) ==
    IF field_date_raises(p.title) \/ field_date_raises(p.subtitle)
    THEN "ValueError" ELSE NoExc

\* title, then subtitle: a match in the subtitle overwrites event_date
extract_date(p) ==
    [p EXCEPT !.title = extract_date_text(p.title),
              !.subtitle = extract_date_text(p.subtitle),
              !.event_date = extract_date_value(p.subtitle,
                                 extract_date_value(p.title, p.event_date))]

-----------------------------------------------------------------------------
(* Pass 2: EPGProcessor._extract_season_episode *)

\* Index in season_patterns of the pattern a token matches (0: none), and the
\* number the pattern captures
SeasonPat(t) ==
    CASE t = "T2" -> 1
      [] t = "Temporada 3" -> 2
      [] OTHER -> 0

SeasonNum(t) == IF t = "T2" THEN 2 ELSE 3

EpisodePat(t) ==
    CASE t = "Episódio 5" -> 1
      [] t = "Ep. 7" -> 2
      [] OTHER -> 0

EpisodeNum(t) == IF t = "Episódio 5" THEN 5 ELSE 7

\* The first pattern of the list that matches somewhere in the text
FirstPat(text, Pat(_)) ==
    LET ps == {Pat(text[i]) : i \in 1..Len(text)} \ {0}
    IN  IF ps = {} THEN 0 ELSE MinOf(ps)

PatIdx(text, Pat(_), k) == {i \in 1..Len(text) : Pat(text[i]) = k}

season_text(text) ==
    IF Falsy(text) \/ FirstPat(text, SeasonPat) = 0 THEN text
    ELSE DropWithSep(text, PatIdx(text, SeasonPat, FirstPat(text, SeasonPat)), {"-"})

season_value(text, before) ==
    IF Falsy(text) \/ FirstPat(text, SeasonPat) = 0 THEN before
    ELSE SeasonNum(text[MinOf(PatIdx(text, SeasonPat, FirstPat(text, SeasonPat)))]) - 1

episode_text(text) ==
    IF Falsy(text) \/ FirstPat(text, EpisodePat) = 0 THEN text
    ELSE DropWithSep(text, PatIdx(text, EpisodePat, FirstPat(text, EpisodePat)), {"-"})

episode_value(text, before) ==
    IF Falsy(text) \/ FirstPat(text, EpisodePat) = 0 THEN before
    ELSE EpisodeNum(text[MinOf(PatIdx(text, EpisodePat, FirstPat(text, EpisodePat)))]) - 1

\* Per field: season first, then episode on what the season left
extract_season_episode(p) ==
    [p EXCEPT !.title = episode_text(season_text(p.title)),
              !.subtitle = episode_text(season_text(p.subtitle)),
              !.season = season_value(p.subtitle, season_value(p.title, p.season)),
              !.episode = episode_value(season_text(p.subtitle),
                              episode_value(season_text(p.title), p.episode))]

-----------------------------------------------------------------------------
(* Pass 3: EPGProcessor._extract_phase *)

\* Indices in phase_patterns (1..11) of the patterns that match inside token t
\* standing at position i (" Ida" needs a blank before the word)
PhasePats(t, i) ==
    CASE t = "Oitavas De Final" -> {1, 5}
      [] t = "Quartas De Final" -> {2, 5}
      [] t = "Semifinal" -> {3, 5}
      [] t = "Finais" -> {4}
      [] t = "Final" -> {5}
      [] t = "Jogo De Ida" -> {6, 8}
      [] t = "Jogo De Volta" -> {7, 9}
      [] t = "Ida" -> IF i > 1 THEN {8} ELSE {}
      [] t = "Volta" -> {9}
      [] t = "Fase De Grupos" -> {10}
      [] t = "3ª Rodada" -> {11}
      [] OTHER -> {}

\* The third component of each phase_patterns entry
PhasePriority(k) ==
    CASE k \in 1..6 -> k
      [] k \in 7..9 -> 7
      [] k = 10 -> 8
      [] OTHER -> 9

\* The replacement text of each entry
PhaseText(k) ==
    CASE k = 1 -> "Oitavas de Final"
      [] k = 2 -> "Quartas de Final"
      [] k = 3 -> "Semifinal"
      [] k = 4 -> "Finais"
      [] k = 5 -> "Final"
      [] k \in {6, 8} -> "Jogo de Ida"
      [] k \in {7, 9} -> "Jogo de Volta"
      [] k = 10 -> "Fase de Grupos"
      [] OTHER -> "3ª Rodada"

\* found_phases, as the set of indices of the patterns that matched
FoundPhases(text) == UNION {PhasePats(text[i], i) : i \in 1..Len(text)}

\* "Jogo de" in p["text"]
IsLeg(k) == k \in 6..9

\* min(found_phases, key=priority): the first entry of least priority number
SelectedPhase(found) ==
    CHOOSE k \in found :
        \A j \in found : \/ PhasePriority(k) < PhasePriority(j)
                         \/ (PhasePriority(k) = PhasePriority(j) /\ k <= j)

CombinesLeg(found) == (found \cap (6..9)) # {} /\ (found \ (6..9)) # {}

\* Strategy 2 alone: the phase of least priority number, legs never combined
phase_value_single(text) == <<PhaseText(SelectedPhase(FoundPhases(text)))>>

phase_value(text) ==
    LET found == FoundPhases(text)
    IN  IF CombinesLeg(found)
        THEN <<PhaseText(MinOf(found \ (6..9))), "-", PhaseText(MinOf(found \cap (6..9)))>>
        ELSE <<PhaseText(SelectedPhase(found))>>

\* The two clean-up substitutions of lines 241-242: colons become dashes, one
\* dash goes from each end
CleanPhaseText(s) ==
    LET t == [i \in 1..Len(s) |-> IF s[i] = ":" THEN "-" ELSE s[i]]
        a == IF t # <<>> /\ t[1] = "-" THEN Tail(t) ELSE t
    IN  IF a # <<>> /\ a[Len(a)] = "-" THEN SubSeq(a, 1, Len(a) - 1) ELSE a

phase_text(text) ==
    LET found == FoundPhases(text)
        M == IF CombinesLeg(found)
             THEN {i \in 1..Len(text) : PhasePats(text[i], i) # {}}
             ELSE {i \in 1..Len(text) : SelectedPhase(found) \in PhasePats(text[i], i)}
    IN  CleanPhaseText(DropWithSep(text, M, {"-", ":"}))

PhaseIn(text) == ~Falsy(text) /\ FoundPhases(text) # {}

\* title first; the subtitle is scanned only when the title gave no phase
extract_phase(p) ==
    IF PhaseIn(p.title)
    THEN [p EXCEPT !.phase = phase_value(p.title), !.title = phase_text(p.title)]
    ELSE IF PhaseIn(p.subtitle)
    THEN [p EXCEPT !.phase = phase_value(p.subtitle), !.subtitle = phase_text(p.subtitle)]
    ELSE p

-----------------------------------------------------------------------------
(* Pass 4: EPGProcessor._extract_location *)

\* Tokens of the shape "City, Country" / "City,Country"
LocToks == {"Tóquio, Japão", "Tóquio,Japão"}

\* ", ".join(part.strip() for part in location.split(","))
FormatLocation(g) == [i \in 1..Len(g) |-> IF g[i] \in LocToks THEN "Tóquio, Japão" ELSE g[i]]

HasComma(t) == t \in LocToks \/ t = ","

LastDash(s) ==
    IF {i \in 1..Len(s) : s[i] = "-"} = {} THEN 0
    ELSE MaxOf({i \in 1..Len(s) : s[i] = "-"})

LocGroup(s) == SubSeq(s, LastDash(s) + 1, Len(s))

\* Patterns 1-2: a dash, then a dash-free tail that holds a location;
\* patterns 3-4: the whole subtitle is one location
LocationMatches(s) ==
    /\ \E i \in 1..Len(LocGroup(s)) : LocGroup(s)[i] \in LocToks
    /\ \/ LastDash(s) >= 1
       \/ Cardinality({i \in 1..Len(s) : HasComma(s[i])}) = 1

extract_location(p) ==
    IF Falsy(p.subtitle) \/ ~LocationMatches(p.subtitle) THEN p
    ELSE LET s == p.subtitle
             location == FormatLocation(LocGroup(s))
             cleaned == SubSeq(s, 1, LastDash(s) - 1)
         IN  IF cleaned = <<>>
             THEN [p EXCEPT !.subtitle = location]
             ELSE [p EXCEPT !.subtitle = cleaned,
                            !.phase = IF Falsy(p.phase) THEN location
                                      ELSE p.phase \o <<"-">> \o location]

-----------------------------------------------------------------------------
(* Pass 5: EPGProcessor._normalize_inverted_title *)

Articles == {"O", "o", "A", "a", "Os", "os", "As", "as"}

\* ^(.+),\s*([OoAa]s?)$
IsInverted(s) == Len(s) >= 3 /\ s[Len(s) - 1] = "," /\ s[Len(s)] \in Articles

normalize_inverted_title(p) ==
    IF IsInverted(p.title)
    THEN [p EXCEPT !.title = <<p.title[Len(p.title)]>> \o SubSeq(p.title, 1, Len(p.title) - 2)]
    ELSE p

-----------------------------------------------------------------------------
(* Pass 6: EPGProcessor._detect_live_status *)

\* Indices of every "- <token>" pair whose token satisfies P
PairIdx(s, P(_)) ==
    UNION {{i, i + 1} : i \in {j \in 1..(Len(s) - 1) : s[j] = "-" /\ P(s[j + 1])}}

IsAoVivo(t) == Lower(t) = "ao vivo"
IsVivo(t) == Lower(t) = "vivo"
IsInedito(t) == Lower(t) = "inédito"
IsEstreia(t) == Lower(t) = "estreia"
IsReprise(t) == Lower(t) = "reprise"
IsReapresentacao(t) == Lower(t) = "reapresentação"
IsVT(t) == Lower(t) = "vt"
HasRetro(t) == Lower(t) \in {"retrô", "premiere retrô"}
IsYear(t) == t \in {"1998"}

\* Tokens each live pattern matches (IGNORECASE); patterns 1 and 2 differ in
\* case only
LiveIdx(s, k) ==
    CASE k \in {1, 2} -> PairIdx(s, IsAoVivo)
      [] k = 3 -> PairIdx(s, IsVivo)
      [] OTHER -> IF s # <<>> /\ IsAoVivo(s[Len(s)]) THEN {Len(s)} ELSE {}

PremiereIdx(s, k) ==
    CASE k = 1 -> PairIdx(s, IsInedito)
      [] k = 2 -> {i \in 2..Len(s) : IsInedito(s[i])}
      [] OTHER -> PairIdx(s, IsEstreia)

\* pattern.replace(" -", "").replace(" ", "").lower()
PremiereMarker(k) ==
    CASE k = 1 -> "-inédito"
      [] k = 2 -> "inédito"
      [] OTHER -> "-estreia"

RerunIdx(s, k) ==
    CASE k = 1 -> UNION {{i, i + 1} : i \in {j \in 1..(Len(s) - 1) : IsVT(s[j]) /\ s[j + 1] = "-"}}
      [] k = 2 -> UNION {{i, i + 1} : i \in {j \in 2..(Len(s) - 1) : s[j] = "-" /\ IsVT(s[j + 1])}}
      [] k = 3 -> PairIdx(s, IsReprise)
      [] k = 4 -> PairIdx(s, IsReapresentacao)
      [] OTHER -> {i \in 1..Len(s) : HasRetro(s[i])}

\* The first pattern of a list that matches the title (0: none)
FirstIdx(s, Idx(_, _), n) ==
    IF Falsy(s) \/ {k \in 1..n : Idx(s, k) # {}} = {} THEN 0
    ELSE MinOf({k \in 1..n : Idx(s, k) # {}})

\* (a) "ao vivo"
detect_live(p) ==
    LET k == FirstIdx(p.title, LiveIdx, 4)
    IN  IF k = 0 THEN p
        ELSE [p EXCEPT !.live = TrueStr,
                       !.title = DropWithSep(p.title, LiveIdx(p.title, k), {"-"})]

\* (b) "inédito" / "estreia"
detect_premiere(p) ==
    LET k == FirstIdx(p.title, PremiereIdx, 3)
    IN  IF k = 0 THEN p
        ELSE [p EXCEPT !.premiere = TRUE,
                       !.live = PremiereMarker(k),
                       !.title = DropWithSep(p.title, PremiereIdx(p.title, k), {"-"})]

HasPremiereRetro(s) == \E i \in 1..Len(s) : s[i] = "Premiere Retrô"

\* (c) "VT" / "reprise" / "reapresentação" / "retrô"; the test of line 350
\* compares the pattern with "- Reprise" and " - Reapresentação", and only
\* the first is an entry of rerun_patterns
detect_rerun(p) ==
    LET k == FirstIdx(p.title, RerunIdx, 5)
    IN  IF k = 0 THEN p
        ELSE IF HasPremiereRetro(p.title)
        THEN [p EXCEPT !.rerun = TRUE,
                       !.title = IF \E i \in 1..Len(p.subtitle) : p.subtitle[i] = "copa do brasil"
                                 THEN <<"Copa do Brasil">>
                                 ELSE <<"Campeonato Brasileiro">>,
                       !.subtitle = SelectSeq(p.subtitle, LAMBDA t : ~IsYear(t)),
                       !.live = "Retrô"]
        ELSE [p EXCEPT !.rerun = TRUE,
                       !.title = DropIdx(p.title, RerunIdx(p.title, k)),
                       !.live = IF k = 3 THEN "reprise" ELSE p.live]

\* `"copa do brasil" in prog.get("subtitle")` raises TypeError on None
detect_rerun_raises(p) ==
    IF /\ FirstIdx(p.title, RerunIdx, 5) # 0
       /\ HasPremiereRetro(p.title)
       /\ p.subtitle = NoneS
    THEN "TypeError" ELSE NoExc

detect_live_status_raises(p) == detect_rerun_raises(detect_premiere(detect_live(p)))

detect_live_status(p) == detect_rerun(detect_premiere(detect_live(p)))

-----------------------------------------------------------------------------
(* Pass 7: EPGProcessor._process_by_channel *)

\* Channel ids of the model and, for each, the keys k of the code with
\* `k in channel.lower()`
Channels ==
    {"SporTV", "Premiere 4K", "X Sports", "Record SP", "Band SP", "Globo SP",
     "Globo SP_local", "GloboNews", "Viva", "SBT", "SBT News", "Canal Brasil"}

ChannelKeys(ch) ==
    CASE ch = "SporTV" -> {"sportv"}
      [] ch = "Premiere 4K" -> {"premiere", "4k"}
      [] ch = "X Sports" -> {"x sports"}
      [] ch = "Record SP" -> {"record sp"}
      [] ch = "Band SP" -> {"band sp"}
      [] ch = "Globo SP" -> {"globo"}
      [] ch = "Globo SP_local" -> {"globo", "local", "globo sp_local"}
      [] ch = "GloboNews" -> {"globo", "news", "globonews"}
      [] ch = "Viva" -> {"viva"}
      [] ch = "SBT" -> {"sbt"}
      [] ch = "SBT News" -> {"sbt", "news"}
      [] OTHER -> {}

ChanHas(ch, key) == key \in ChannelKeys(ch)

\* Result of ScheduleSearcher.get_match_by_teams / get_match: a match, or empty
SearchResults ==
    {[found |-> FALSE, competition |-> NoneS, home_team |-> NoneS,
      away_team |-> NoneS, phase |-> NoneS, stadium |-> NoneS],
     [found |-> TRUE, competition |-> <<"Brasileirão">>, home_team |-> <<"Flamengo">>,
      away_team |-> <<"Palmeiras">>, phase |-> <<"38ª rodada">>, stadium |-> <<"Maracanã">>]}

\* Tokens with a character outside [A-Za-zÀ-ÿ0-9\s]
NonWordToks ==
    {"-", ":", ",", "25/12/2024", "Ep. 7", "3ª Rodada", "Tóquio, Japão",
     "Tóquio,Japão", "[14+]", "<None>", "<False>"}

\* ^[A-Za-zÀ-ÿ0-9\s]+ x [A-Za-zÀ-ÿ0-9\s]+$
IsConfrontation(s) ==
    /\ \A i \in 1..Len(s) : s[i] \notin NonWordToks
    /\ \E i \in 2..(Len(s) - 1) : s[i] = "x"

\* subtitle.split(" x "): teams[0] and teams[1]
XIdx(s) == {i \in 2..(Len(s) - 1) : s[i] = "x"}
HomeTeam(s) == SubSeq(s, 1, MinOf(XIdx(s)) - 1)
AwayTeam(s) ==
    LET first == MinOf(XIdx(s))
        later == {i \in XIdx(s) : i > first}
    IN  SubSeq(s, first + 1, IF later = {} THEN Len(s) ELSE MinOf(later) - 1)

\* re.sub(r"\s+X\s+", " x ", subtitle)
LowerX(s) == [i \in 1..Len(s) |-> IF s[i] = "X" /\ i > 1 /\ i < Len(s) THEN "x" ELSE s[i]]

\* re.sub(r"\s?-?\s?Globoplay", "", subtitle)
DropGloboplay(s) == DropWithSep(s, {i \in 1..Len(s) : s[i] = "Globoplay"}, {"-"})

\* One text is a substring of the other: a contiguous run of its tokens
Contains(s, sub) ==
    \E i \in 0..(Len(s) - Len(sub)) : SubSeq(s, i + 1, i + Len(sub)) = sub

HasTok(s, t) == \E i \in 1..Len(s) : s[i] = t

\* Title and subtitle after `title, subtitle = title.split(" - ", 1)`
SplitTitle(p) == [p EXCEPT !.title = SplitHead(p.title), !.subtitle = SplitTail(p.title)]

\* if 'local' in channel.lower(): a "[14+]" mark of the description becomes
\* the rating, then the subtitle moves to the description
by_channel_local(p) ==
    [p EXCEPT !.rating = IF ~Falsy(p.description) /\ HasTok(p.description, "[14+]")
                         THEN "14+" ELSE p.rating,
              !.description = p.subtitle,
              !.subtitle = <<>>]

\* EPGProcessor._normalize_repeated_name: "<match> - <competition>: <match>"
ColonIdx(s) == {i \in 1..Len(s) : s[i] = ":"}

normalize_repeated_name(p) ==
    IF ColonIdx(p.title) = {} THEN p
    ELSE LET c == MinOf(ColonIdx(p.title))
             before == SubSeq(p.title, 1, c - 1)
             after == SubSeq(p.title, c + 1, Len(p.title))
         IN  IF ~HasSep(before) THEN p
             ELSE IF [i \in 1..Len(SplitHead(before)) |-> Lower(SplitHead(before)[i])]
                     = [i \in 1..Len(after) |-> Lower(after[i])]
                  THEN [p EXCEPT !.title = SplitTail(before), !.subtitle = SplitHead(before)]
                  ELSE p

\* if "4k" in channel.lower()
by_channel_4k(p) ==
    IF normalize_repeated_name(p).title # p.title
    THEN [normalize_repeated_name(p) EXCEPT !.live = TrueStr]
    ELSE normalize_repeated_name(p)

\* SporTV, Premiere, Combate, ge-tv: lines 417-429, before the match lookup
sportv_prepare(p) ==
    LET a == [p EXCEPT !.genre = "sports (general)"]
        b == IF Falsy(a.subtitle) /\ HasSep(a.title) THEN SplitTitle(a) ELSE a
        c == IF ~Falsy(b.subtitle) THEN [b EXCEPT !.subtitle = LowerX(b.subtitle)] ELSE b
    IN  IF ~Falsy(c.subtitle) THEN [c EXCEPT !.subtitle = DropGloboplay(c.subtitle)] ELSE c

\* Lines 431-452.  Line 437 names ScheduleSearcher, which the failed import of
\* line 11 leaves undefined: NameError.
by_channel_sportv_raises(p, has_spa) ==
    IF /\ sportv_prepare(p).subtitle # NoneS
       /\ IsConfrontation(sportv_prepare(p).subtitle)
       /\ ~has_spa
    THEN "NameError" ELSE NoExc

by_channel_sportv(p, r) ==
    LET q == sportv_prepare(p)
    IN  IF q.subtitle = NoneS THEN q
        ELSE IF IsConfrontation(q.subtitle)
        THEN [q EXCEPT !.event_processor_type = "football",
                       !.home_team = HomeTeam(q.subtitle),
                       !.away_team = AwayTeam(q.subtitle),
                       !.phase = IF r.found THEN r.phase ELSE q.phase]
        ELSE [q EXCEPT !.event_processor_type = "sports"]

\* X Sports: lines 455-482
xsports_prepare(p) == IF Falsy(p.subtitle) /\ HasSep(p.title) THEN SplitTitle(p) ELSE p

by_channel_xsports_raises(p, has_spa) ==
    IF /\ xsports_prepare(p).subtitle # NoneS
       /\ IsConfrontation(xsports_prepare(p).subtitle)
       /\ ~has_spa
    THEN "NameError" ELSE NoExc

Enrich(q, r) ==
    [q EXCEPT !.competition = r.competition,
              !.home_team = r.home_team,
              !.away_team = r.away_team,
              !.phase = r.phase,
              !.stadium = r.stadium,
              !.live = TrueStr]

by_channel_xsports(p, r) ==
    LET q == xsports_prepare(p)
    IN  IF q.subtitle = NoneS THEN q
        ELSE IF IsConfrontation(q.subtitle)
        THEN LET f == [q EXCEPT !.event_processor_type = "football",
                                !.home_team = HomeTeam(q.subtitle),
                                !.away_team = AwayTeam(q.subtitle)]
             IN  IF r.found THEN Enrich(f, r) ELSE f
        ELSE [q EXCEPT !.event_processor_type = "sports"]

\* Record SP: lines 486-521
IurdPrograms == {"Inteligência e Fé", "Palavra Amiga", "Programa do Templo"}

IurdIdx(s) == {i \in 1..Len(s) : s[i] \in IurdPrograms}

record_iurd(p) ==
    IF IurdIdx(p.title) = {} THEN p
    ELSE [p EXCEPT !.subtitle = <<CHOOSE n \in IurdPrograms :
                                     /\ HasTok(p.title, n)
                                     /\ \A m \in IurdPrograms :
                                           HasTok(p.title, m) =>
                                             \/ n = m
                                             \/ n = "Inteligência e Fé"
                                             \/ (n = "Palavra Amiga" /\ m = "Programa do Templo")>>,
                   !.title = <<"Programação IURD">>]

\* "Programação Universal - IURD" in title
IsUniversal(s) ==
    \E i \in 1..(Len(s) - 2) :
        s[i] = "Programação Universal" /\ s[i + 1] = "-" /\ s[i + 2] = "IURD"

IsChampionship(s) == HasTok(s, "Campeonato Brasileiro") \/ HasTok(s, "Campeonato Paulista")

\* text.split(" - ")[1]: what stands between the first and the second dash
SecondPart(s) ==
    IF ~HasSep(s) THEN <<>>
    ELSE LET t == SplitTail(s)
         IN  IF HasSep(t) THEN SplitHead(t) ELSE t

by_channel_record_raises(p, has_spa) ==
    LET q == record_iurd(p)
    IN  IF ~IsUniversal(q.title) /\ IsChampionship(q.title) /\ has_spa
           /\ (~HasSep(q.title) \/ XIdx(SecondPart(q.title)) = {})
        THEN "IndexError" ELSE NoExc

by_channel_record(p, has_spa, r) ==
    LET q == record_iurd(p)
    IN  IF IsUniversal(q.title)
        THEN [q EXCEPT !.subtitle =
                           IF /\ q.title[1] = "Programação Universal"
                              /\ q.title[2] = "-" /\ q.title[3] = "IURD"
                           THEN LET rest == SubSeq(q.title, 4, Len(q.title))
                                IN  IF rest # <<>> /\ rest[1] = "-" THEN Tail(rest) ELSE rest
                           ELSE q.title,
                       !.title = <<"Programação IURD">>]
        ELSE IF IsChampionship(q.title) /\ has_spa /\ r.found
        THEN [Enrich(q, r) EXCEPT !.event_processor_type = "football"]
        ELSE q

\* Band SP: lines 525-540
Religiosos ==
    {"Igreja Cristo Para As Nações", "Igreja Universal do Reino de Deus",
     "Show da Fé", "Oração do dia com Profeta Vinícius Iracet"}

BandPrefix(t) ==
    CASE t \in {"INFOMERCIAL", "Infomercial", "infomercial"} -> "INFOMERCIAL"
      [] t \in {"RELIGIOSO", "Religioso", "religioso"} -> "RELIGIOSO"
      [] OTHER -> ""

by_channel_band(p) ==
    IF Len(p.title) >= 3 /\ BandPrefix(p.title[1]) # "" /\ p.title[2] = "-"
    THEN [p EXCEPT !.title = <<BandPrefix(p.title[1])>>,
                   !.subtitle = SubSeq(p.title, 3, Len(p.title))]
    ELSE IF \E i \in 1..Len(p.title) : p.title[i] \in Religiosos
    THEN [p EXCEPT !.subtitle = p.title, !.title = <<"RELIGIOSO">>]
    ELSE [p EXCEPT !.subtitle = NoneS]

\* Globo: lines 544-621
SESSOES_FILMES ==
    {"Corujão I", "Corujão II", "Corujão III", "Corujão VI", "Temperatura Máxima",
     "Campeões de Bilheteria", "Campeões De Bilheteria", "Domingo Maior",
     "Sessão da Tarde", "Sessao Da Tarde", "Tela Quente", "Cinemaço",
     "Cinema Especial", "Festival de Sucessos", "Festival De Sucessos",
     "Sessão Brasil", "Sessão de Natal", "Sessão De Natal", "Supercine"}

SESSOES_PROGRAMAS ==
    <<"Vale a Pena Ver de Novo", "Vale A Pena Ver de Novo", "Vale a Pena Ver De Novo",
      "Vale A Pena", "Sessão Globoplay">>

\* `program_name in title`, for one token of the title
NameInTok(k, t) ==
    \/ t = SESSOES_PROGRAMAS[k]
    \/ (k = 4 /\ t = "Vale A Pena Ver de Novo")

NameIdx(s, k) == {i \in 1..Len(s) : NameInTok(k, s[i])}

\* re.search(program_name\s*-\s*(.*)): the name, then a dash
NameDashIdx(s, k) ==
    {i \in 1..(Len(s) - 1) : s[i] = SESSOES_PROGRAMAS[k] /\ s[i + 1] = "-"}

\* Line 576
globo_split(p) ==
    IF /\ HasSep(p.title)
       /\ \/ Falsy(p.subtitle)
          \/ Contains(p.title, p.subtitle)
    THEN SplitTitle(p) ELSE p

\* Lines 579-587
globo_sessions(p) ==
    LET named == {k \in 1..5 : NameIdx(p.title, k) # {}}
        dashed == {k \in 1..5 : NameDashIdx(p.title, k) # {}}
    IN  IF Falsy(p.title) \/ named = {} THEN p
        ELSE IF dashed = {} THEN [p EXCEPT !.event_processor_type = "series"]
        ELSE LET k == MinOf(dashed)
                 i == MinOf(NameDashIdx(p.title, k))
             IN  [p EXCEPT !.event_processor_type = "series",
                           !.subtitle = SubSeq(p.title, i + 2, Len(p.title)),
                           !.title = <<SESSOES_PROGRAMAS[k]>>]

globo_processed(p) == ~Falsy(p.title) /\ \E k \in 1..5 : NameDashIdx(p.title, k) # {}

\* title.strip().lower() in [s.lower() for s in SESSOES_FILMES]
IsFilmBlock(s) == Len(s) = 1 /\ \E f \in SESSOES_FILMES : Lower(s[1]) = Lower(f)

by_channel_globo(p, has_spa, r) ==
    LET a == globo_split(p)
        b == globo_sessions(a)
    IN  IF IsFilmBlock(b.title) /\ ~globo_processed(a)
        THEN [b EXCEPT !.event_processor_type = "movie"]
        ELSE LET c == IF HasTok(b.title, "Edição Especial")
                      THEN [b EXCEPT !.event_processor_type = "egrem"] ELSE b
             IN  IF c.title = <<"Futebol">> /\ has_spa /\ r.found
                 THEN [Enrich(c, r) EXCEPT !.event_processor_type = "football"]
                 ELSE c

\* GloboNews: lines 625-633
EdicaoIdx(s) == {i \in 1..Len(s) : s[i] \in {"Edição Das 18h", "Edição das 18h"}}

by_channel_news(p) ==
    IF ~Falsy(p.title) /\ EdicaoIdx(p.title) # {}
    THEN [p EXCEPT !.genre = "news/current affairs (general)",
                   !.title = <<"Jornal GloboNews", "-", "Edição das 18h">>,
                   !.subtitle = NoneS]
    ELSE [p EXCEPT !.genre = "news/current affairs (general)"]

\* Viva, Multishow: lines 638-646
CapituloIdx(s) == {i \in 1..Len(s) : s[i] = "Capítulo 12"}

by_channel_viva(p) ==
    LET a == IF ~Falsy(p.title)
             THEN [p EXCEPT !.title = [i \in 1..Len(p.title) |->
                                          IF p.title[i] = "Tvz" THEN "TVZ" ELSE p.title[i]]]
             ELSE p
    IN  IF ~Falsy(a.subtitle) /\ CapituloIdx(a.subtitle) # {}
        THEN [a EXCEPT !.episode = 12 - 1,
                       !.subtitle = DropIdx(a.subtitle, CapituloIdx(a.subtitle))]
        ELSE a

\* SBT: lines 650-672; IndexError and AttributeError are caught
IsSbtCup(s) == HasTok(s, "Sul-americana") \/ HasTok(s, "Champions League")

by_channel_sbt(p, has_spa, r) ==
    IF /\ IsSbtCup(p.title) /\ has_spa
       /\ p.subtitle # NoneS /\ HasSep(p.subtitle)
       /\ XIdx(SecondPart(p.subtitle)) # {}
       /\ r.found
    THEN [Enrich(p, r) EXCEPT !.event_processor_type = "football"]
    ELSE p

\* The chain of lines 416-672: the first branch whose test holds
\* A mutation of ChannelBranch: the test of line 649 comes before that of line 624
ChannelBranchSbtFirst(ch) ==
    IF \E k \in {"sportv", "premiere", "combate", "ge-tv"} : ChanHas(ch, k) THEN "sportv"
    ELSE IF ChanHas(ch, "x sports") THEN "x sports"
    ELSE IF ChanHas(ch, "record sp") THEN "record"
    ELSE IF ChanHas(ch, "band sp") THEN "band"
    ELSE IF ChanHas(ch, "globo") /\ ~ChanHas(ch, "play") /\ ~ChanHas(ch, "news") THEN "globo"
    ELSE IF ChanHas(ch, "sbt") THEN "sbt"
    ELSE IF ChanHas(ch, "globonews") \/ ChanHas(ch, "news") THEN "news"
    ELSE IF ChanHas(ch, "viva") \/ ChanHas(ch, "multishow") THEN "viva"
    ELSE "none"

\* The if/elif chain of lines 416-649: the first test that holds
ChannelBranch(ch) ==
    IF \E k \in {"sportv", "premiere", "combate", "ge-tv"} : ChanHas(ch, k) THEN "sportv"
    ELSE IF ChanHas(ch, "x sports") THEN "x sports"
    ELSE IF ChanHas(ch, "record sp") THEN "record"
    ELSE IF ChanHas(ch, "band sp") THEN "band"
    ELSE IF ChanHas(ch, "globo") /\ ~ChanHas(ch, "play") /\ ~ChanHas(ch, "news") THEN "globo"
    ELSE IF ChanHas(ch, "globonews") \/ ChanHas(ch, "news") THEN "news"
    ELSE IF ChanHas(ch, "viva") \/ ChanHas(ch, "multishow") THEN "viva"
    ELSE IF ChanHas(ch, "sbt") THEN "sbt"
    ELSE "none"

\* The blocks of _process_by_channel that run for a channel, in the order they
\* run: the two independent `if` blocks of lines 397 and 407, then the chain.
handlers_run(ch) ==
    (IF ChanHas(ch, "local") THEN <<"local">> ELSE <<>>)
        \o (IF ChanHas(ch, "4k") THEN <<"4k">> ELSE <<>>)
        \o (IF ChannelBranch(ch) = "none" THEN <<>> ELSE <<ChannelBranch(ch)>>)

\* The two independent steps of lines 397-413
by_channel_common(p, ch) ==
    LET a == IF ChanHas(ch, "local") THEN by_channel_local(p) ELSE p
    IN  IF ChanHas(ch, "4k") THEN by_channel_4k(a) ELSE a

process_by_channel_raises(p, ch, has_spa) ==
    LET q == by_channel_common(p, ch)
        b == ChannelBranch(ch)
    IN  CASE b = "sportv" -> by_channel_sportv_raises(q, has_spa)
          [] b = "x sports" -> by_channel_xsports_raises(q, has_spa)
          [] b = "record" -> by_channel_record_raises(q, has_spa)
          [] OTHER -> NoExc

process_by_channel(p, ch, has_spa, r) ==
    LET q == by_channel_common(p, ch)
        b == ChannelBranch(ch)
    IN  CASE b = "sportv" -> by_channel_sportv(q, r)
          [] b = "x sports" -> by_channel_xsports(q, r)
          [] b = "record" -> by_channel_record(q, has_spa, r)
          [] b = "band" -> by_channel_band(q)
          [] b = "globo" -> by_channel_globo(q, has_spa, r)
          [] b = "news" -> by_channel_news(q)
          [] b = "viva" -> by_channel_viva(q)
          [] b = "sbt" -> by_channel_sbt(q, has_spa, r)
          [] OTHER -> q

-----------------------------------------------------------------------------
(* The tables of mappings.yaml, as EPGConfig.load_mappings reads them.       *)
(* "none": the file is absent or empty; "sample": a file with entries.        *)

MappingFiles == {"none", "sample"}

\* competitions_map.get(name): a [name, genre] list, a bare name, or a miss
competitions_map(m, name) ==
    IF m = "none" THEN NoneS
    ELSE CASE name = <<"Brasileirão">> -> <<"Campeonato Brasileiro", "football (soccer)">>
           [] name = <<"Copa">> -> <<"Copa do Brasil">>
           [] OTHER -> NoneS

programs_map(m, name) ==
    IF m = "none" THEN NoneS
    ELSE CASE name = <<"Brasileirão">> -> <<"Brasileirão Série A">>
           [] name = <<"Supercine">> -> <<"Super Cine">>
           [] OTHER -> NoneS

genres_map(m, name) ==
    IF m = "none" THEN NoneStr
    ELSE CASE name = "Esporte" -> "sports (general)"
           [] OTHER -> NoneStr

\* EPGConfig.get_competition_mapping: (name, genre) or (None, None)
get_competition_mapping(m, name) ==
    LET result == competitions_map(m, name)
    IN  IF result = NoneS THEN [name |-> NoneS, genre |-> NoneStr]
        ELSE IF Len(result) = 2 THEN [name |-> <<result[1]>>, genre |-> result[2]]
        ELSE [name |-> result, genre |-> NoneStr]

get_program_mapping(m, name) == programs_map(m, name)

get_genre_mapping(m, name) == genres_map(m, name)

-----------------------------------------------------------------------------
(* Pass 8: EPGProcessor._map_competitions_programs *)

HighlightKeys ==
    {"sportv", "premiere", "combate", "ge-tv", "band sports", "globo sp_local",
     "x sports_local", "espn"}

IsHighlightChannel(ch) == \E k \in HighlightKeys : ChanHas(ch, k)

\* Lines 683-688: the lookup by the competition field
map_by_competition(p, m) ==
    LET hit == get_competition_mapping(m, p.competition)
    IN  IF p.competition = NoneS \/ hit.name = NoneS THEN p
        ELSE [p EXCEPT !.competition = hit.name,
                       !.genre = IF hit.genre # NoneStr THEN hit.genre ELSE p.genre]

\* The value of `mapped` when line 697 reads it
MappedAtHighlight(p, m) ==
    LET first == IF p.competition = NoneS THEN NoneS
                 ELSE get_competition_mapping(m, p.competition).name
    IN  IF first = NoneS \/ p.competition = NoneS
        THEN get_competition_mapping(m, p.title).name
        ELSE first

\* Lines 690-695: the lookup by the title, when the first one gave nothing
map_by_title(p, q, m) ==
    LET first == IF p.competition = NoneS THEN NoneS
                 ELSE get_competition_mapping(m, p.competition).name
        hit == get_competition_mapping(m, p.title)
    IN  IF (first = NoneS \/ p.competition = NoneS) /\ hit.name # NoneS
        THEN [q EXCEPT !.title = hit.name,
                       !.genre = IF hit.genre # NoneStr THEN hit.genre ELSE q.genre]
        ELSE q

\* Line 713 had it assigned: a football or sports record leaves as series
map_competitions_programs_retagging(p, ch, m) ==
    LET a == map_by_title(p, map_by_competition(p, m), m)
        b == IF /\ IsHighlightChannel(ch)
                /\ MappedAtHighlight(p, m) # NoneS
                /\ a.live # TrueStr /\ a.live # "Retrô"
             THEN [a EXCEPT !.live = "VT"] ELSE a
        c == IF get_program_mapping(m, p.title) # NoneS
             THEN [b EXCEPT !.title = get_program_mapping(m, p.title)]
             ELSE b
    IN  IF c.event_processor_type \in {"football", "sports"}
        THEN [c EXCEPT !.event_processor_type = "series"] ELSE c

\* Line 713 compares instead of assigning: event_processor_type stays
map_competitions_programs(p, ch, m) ==
    LET a == map_by_title(p, map_by_competition(p, m), m)
        b == IF /\ IsHighlightChannel(ch)
                /\ MappedAtHighlight(p, m) # NoneS
                /\ a.live # TrueStr /\ a.live # "Retrô"
             THEN [a EXCEPT !.live = "VT"] ELSE a
    IN  IF get_program_mapping(m, p.title) # NoneS
        THEN [b EXCEPT !.title = get_program_mapping(m, p.title)]
        ELSE b

-----------------------------------------------------------------------------
(* Pass 9: EPGProcessor._map_genre *)

map_genre(p, m) ==
    LET a == IF p.genre # NoneStr /\ p.genre # "" /\ get_genre_mapping(m, p.genre) # NoneStr
             THEN [p EXCEPT !.genre = get_genre_mapping(m, p.genre)] ELSE p
    IN  IF a.live = TrueStr THEN [a EXCEPT !.genre = "live broadcast"] ELSE a

-----------------------------------------------------------------------------
(* Pass 10: EPGProcessor._normalize_rating *)

\* Line 768, which overwrites the result of line 767: brackets go, " anos" stays
RatingClean(r) ==
    CASE r = "[14]" -> "14"
      [] OTHER -> r

rating_map(r) ==
    CASE r \in {"L", "1", "AGE84", "4+"} -> "L"
      [] r = "AL" -> "AL"
      [] r \in {"10", "AGE85", "5+"} -> "10"
      [] r \in {"12", "AGE105", "6+"} -> "12"
      [] r \in {"14", "AGE87", "7+"} -> "14"
      [] r \in {"16", "AGE86", "8+"} -> "16"
      [] r \in {"18", "AGE89", "9+"} -> "18"
      [] OTHER -> r

UnratedCodes == {"AGE215", "S/C", "SC", "Sem Classificação", "no rating", ""}

normalize_rating(p) ==
    IF p.rating = NoneStr \/ p.rating = "" THEN p
    ELSE IF rating_map(RatingClean(p.rating)) \in UnratedCodes
    THEN [p EXCEPT !.rating = NoneStr]
    ELSE [p EXCEPT !.rating = rating_map(RatingClean(p.rating))]

-----------------------------------------------------------------------------
(* Pass 11: EPGProcessor.process_output *)

\* str(None) inside an f-string
Render(t) == IF t = NoneS THEN <<"None">> ELSE IF t = FalseS THEN <<"False">> ELSE t

\* _format_event_date; <<>> is ""
format_event_date(event_date, phase) ==
    IF event_date = NoneStr \/ event_date = "" THEN <<>>
    ELSE IF ~Falsy(phase) THEN <<", realizado em", event_date>>
    ELSE <<"realizado em", event_date>>

\* f"{phase or ''}{event_date_str}".strip()
PhaseAndDate(phase, event_date_str) ==
    (IF Falsy(phase) THEN <<>> ELSE phase) \o event_date_str

LowerSeq(s) == [i \in 1..Len(s) |-> Lower(s[i])]

StripLeadDash(s) == IF s # <<>> /\ s[1] = "-" THEN Tail(s) ELSE s
StripTrailDash(s) == IF s # <<>> /\ s[Len(s)] = "-" THEN SubSeq(s, 1, Len(s) - 1) ELSE s

\* _clean_subtitle
clean_subtitle(title, subtitle) ==
    IF Falsy(subtitle) \/ title = subtitle THEN NoneS
    ELSE LET a == IF /\ Len(subtitle) >= Len(title)
                     /\ LowerSeq(SubSeq(subtitle, 1, Len(title))) = LowerSeq(title)
                  THEN StripLeadDash(SubSeq(subtitle, Len(title) + 1, Len(subtitle)))
                  ELSE subtitle
             cleaned == StripTrailDash(StripLeadDash(a))
         IN  IF cleaned = <<>> THEN NoneS ELSE cleaned

\* Step 3: title and subtitle by event_processor_type
output_by_type(p, event_date_str) ==
    LET t == p.event_processor_type
    IN  CASE t = "football" ->
                [p EXCEPT !.title = (IF ~Falsy(p.competition) THEN p.competition ELSE p.title)
                                    \o <<":">> \o Render(p.home_team) \o <<"x">>
                                    \o Render(p.away_team),
                          !.subtitle = PhaseAndDate(p.phase, event_date_str),
                          !.phase = NoneS]
          [] t = "sports" ->
                [p EXCEPT !.title = IF p.subtitle # NoneS
                                    THEN p.title \o <<":">> \o p.subtitle ELSE p.title,
                          !.subtitle = NoneS]
          [] t \in {"series", "movie"} ->
                [p EXCEPT !.title = p.title \o <<":">> \o Render(p.subtitle),
                          !.subtitle = NoneS]
          [] t = "merge" ->
                [p EXCEPT !.title = p.title \o <<"-">> \o Render(p.subtitle),
                          !.subtitle = NoneS]
          [] t = "egrem" ->
                [p EXCEPT !.title = Render(p.subtitle) \o <<"-">> \o p.title,
                          !.subtitle = NoneS]
          [] OTHER -> p

\* Step 4 fires: the empty subtitle takes the phase and the date
FillsSubtitle(p) ==
    Falsy(p.subtitle) /\ ((p.event_date # NoneStr /\ p.event_date # "") \/ ~Falsy(p.phase))

\* _format_description: the parts that are there, joined by " - "
JoinPart(acc, part) ==
    IF Falsy(part) THEN acc
    ELSE IF acc = <<>> THEN part ELSE acc \o <<"-">> \o part

\* event_date_str.lstrip(", ")
LStripComma(s) ==
    IF s # <<>> /\ s[1] = ", realizado em" THEN <<"realizado em">> \o Tail(s) ELSE s

format_description(phase, event_date_str, description, stadium) ==
    JoinPart(JoinPart(JoinPart(JoinPart(<<>>, stadium), phase),
                      LStripComma(event_date_str)), description)

\* "- Ao Vivo" in title
HasLiveMark(s) == \E i \in 1..(Len(s) - 1) : s[i] = "-" /\ s[i + 1] = "Ao Vivo"

\* _apply_broadcast_markers
apply_broadcast_markers(p) ==
    IF HasLiveMark(p.title) THEN [p EXCEPT !.genre = "live broadcast"]
    ELSE IF p.live = TrueStr
    THEN [p EXCEPT !.title = p.title \o <<"-", "ao vivo">>, !.genre = "live broadcast"]
    ELSE IF p.live \in {"-inédito", "inédito", "-estreia", "reprise"}
    THEN [p EXCEPT !.title = p.title \o <<"-", p.live>>]
    ELSE IF p.live \in {"VT", "Retrô"}
    THEN [p EXCEPT !.title = <<p.live, "-">> \o p.title]
    ELSE p

\* title.replace(" - -", " - "): a dash right after a dash goes
Undash(t) ==
    CASE t = "-inédito" -> "inédito"
      [] t = "-estreia" -> "estreia"
      [] OTHER -> t

ReplaceDoubleDash(s) ==
    LET F[i \in 0..Len(s)] ==
            IF i = 0 THEN <<>>
            ELSE IF i > 1 /\ s[i - 1] = "-"
                 THEN IF s[i] = "-" THEN F[i - 1] ELSE Append(F[i - 1], Undash(s[i]))
                 ELSE Append(F[i - 1], s[i])
    IN  F[Len(s)]

\* Line 867: .replace(" X ", " x ").  The channel name "X Sports" is one token
\* here; after a blank its capital X is between blanks too.
ReplaceX(s) ==
    [i \in 1..Len(s) |->
        IF i > 1 /\ s[i] = "X Sports" THEN "x Sports" ELSE LowerX(s)[i]]

process_output(p) ==
    LET event_date_str == format_event_date(p.event_date, p.phase)
        a == [p EXCEPT !.subtitle = clean_subtitle(p.title, p.subtitle)]
        b == output_by_type(a, event_date_str)
        c == IF FillsSubtitle(b)
             THEN [b EXCEPT !.subtitle = PhaseAndDate(b.phase, event_date_str),
                            !.phase = NoneS]
             ELSE b
        d == [c EXCEPT !.description =
                  format_description(c.phase,
                                     IF FillsSubtitle(b) THEN <<>> ELSE event_date_str,
                                     c.description, c.stadium)]
        e == apply_broadcast_markers(d)
    IN  [e EXCEPT !.title = ReplaceX(ReplaceDoubleDash(e.title))]

-----------------------------------------------------------------------------
(* The record process_program works on *)

\* Lines 39-62: the dict process_program starts from
new_record(raw) ==
    [channel |-> raw.channel, title |-> raw.title, subtitle |-> raw.subtitle,
     description |-> raw.description, rating |-> raw.rating,
     season |-> raw.season, episode |-> raw.episode, genre |-> raw.genre,
     live |-> raw.live, premiere |-> FALSE, rerun |-> FALSE,
     event_date |-> NoneStr, home_team |-> NoneS, away_team |-> NoneS,
     competition |-> NoneS, stadium |-> NoneS, phase |-> FalseS,
     event_processor_type |-> "program"]

\* A raw entry with nothing in it
NoRaw ==
    [channel |-> "", title |-> <<>>, subtitle |-> NoneS, live |-> NoneStr,
     rating |-> NoneStr, genre |-> NoneStr, description |-> NoneS,
     season |-> NoneInt, episode |-> NoneInt]

\* No helper is called on its own
CallIdle ==
    /\ call_pc = "idle"
    /\ call_arg = <<>>
    /\ call_ret = <<>>

\* The pipeline variables while grab_epg is examined
ProcIdle ==
    /\ stage = "idle"
    /\ raw_program = NoRaw
    /\ spa = FALSE
    /\ mappings = "none"
    /\ prog = new_record(NoRaw)
    /\ perr = NoExc
    /\ handlers = <<>>

-----------------------------------------------------------------------------
(* EPGGrabber.grab_epg *)

cfg_of(name) == Catalog[name]

\* Argument lists of the model: None, or at most MaxServices names
ServiceLists ==
    {NoneS} \cup UNION {[1..n -> ServiceNames] : n \in 0..MaxServices}

Goto(label) == /\ pc' = label
               /\ visited' = visited \cup {label}

\* An exception leaves the try block of line 58: control goes to `finally`
Raise(type) == /\ exc' = type
               /\ Goto("finally")

Init ==
    /\ pc = "start"
    /\ services \in ServiceLists
    /\ days \in -1..MaxDays
    /\ channel_id \in {0, 9}
    /\ si = 0 /\ ci = 0 /\ di = 0
    /\ service_config = Unbound
    /\ services_cache = {}
    /\ all_items = <<>>
    /\ all_programs = <<>>
    /\ fetched = <<>>
    /\ payloads = <<>>
    /\ failed = <<>>
    /\ errors = 0
    /\ exc = NoExc
    /\ output_path = Unbound
    /\ writes = <<>>
    /\ visited = {"start"}
    /\ ProcIdle
    /\ CallIdle

\* Lines 51-65: default service list, progress bar sized by the longest name
\* (max() of an empty list raises ValueError)
Start ==
    /\ UNCHANGED <<procVars, callVars>>
    /\ pc = "start"
    /\ services' = IF services = NoneS THEN get_all_services ELSE services
    /\ IF services' = <<>>
       THEN /\ Raise("ValueError")
            /\ si' = si
       ELSE /\ Goto("service")
            /\ si' = 1
            /\ exc' = exc
    /\ UNCHANGED <<days, channel_id, ci, di, service_config, services_cache,
                   all_items, all_programs, fetched, payloads, failed, errors,
                   output_path, writes>>

\* Lines 66-90: load_service_config (FileNotFoundError when the file is
\* missing, raised before the cache is written), day range, channel list
LoadService ==
    /\ UNCHANGED <<procVars, callVars>>
    /\ pc = "service"
    /\ LET name == services[si]
       IN  IF ~cfg_of(name).exists
           THEN /\ Raise("FileNotFoundError")
                /\ UNCHANGED <<service_config, services_cache, ci>>
           ELSE /\ service_config' = name
                /\ services_cache' = services_cache \cup {name}
                /\ ci' = 1
                /\ Goto("channel")
                /\ exc' = exc
    /\ UNCHANGED <<services, days, channel_id, si, di, all_items, all_programs,
                   fetched, payloads, failed, errors, output_path, writes>>

\* Lines 93-97: one pass of `for each_channel in channel_list`
BeginChannel ==
    /\ UNCHANGED <<procVars, callVars>>
    /\ pc = "channel"
    /\ all_items' = <<>>
    /\ di' = 1
    /\ Goto("day")
    /\ UNCHANGED <<services, days, channel_id, si, ci, service_config,
                   services_cache, all_programs, fetched, payloads, failed,
                   errors, exc, output_path, writes>>

\* Lines 100-118: one pass of `for day in day_range`: fetch, extract, extend;
\* the handler of line 115 logs and breaks out of the day loop.
FetchDay ==
    /\ UNCHANGED <<procVars, callVars>>
    /\ pc = "day"
    /\ LET cfg == cfg_of(service_config)
           range == day_range(cfg, days)
           chan == channel_list(cfg, channel_id)[ci]
           lid == list_id_channel(cfg, chan)
       IN  /\ di <= Len(range)
           /\ LET day == range[di]
                  Handler(type) ==
                      /\ failed' = Append(failed, <<service_config, chan, day>>)
                      /\ errors' = errors + 1
                      /\ IF log_exception(TracebackFrames(type)) = "SystemExit"
                         THEN Raise("SystemExit")
                         ELSE Goto("break") /\ exc' = exc
                      /\ UNCHANGED <<all_items, di>>
              IN  /\ fetched' = Append(fetched, <<service_config, lid, day>>)
                  /\ \/ /\ payloads' = payloads
                        /\ Handler("Exception")
                     \/ \E data \in Payloads(service_config, chan, day) :
                          /\ payloads' = Append(payloads, data)
                          /\ LET got == call_extract_programs(data)
                             IN  IF got.raised # NoExc
                                 THEN Handler(got.raised)
                                 ELSE /\ all_items' = all_items \o got.programs
                                      /\ di' = di + 1
                                      /\ UNCHANGED <<pc, visited, failed, errors, exc>>
    /\ UNCHANGED <<services, days, channel_id, si, ci, service_config,
                   services_cache, all_programs, output_path, writes>>

\* Lines 120-136, once the day loop has ended: every raw entry of the channel
\* goes through process_program and a truthy result is appended.
ProcessItems ==
    /\ UNCHANGED <<procVars, callVars>>
    /\ \/ pc = "break"
       \/ (pc = "day" /\ di > Len(day_range(cfg_of(service_config), days)))
    /\ all_programs' =
           all_programs \o [i \in 1..Len(all_items) |-> process_program_record(all_items[i])]
    /\ IF ci < Len(channel_list(cfg_of(service_config), channel_id))
       THEN /\ ci' = ci + 1
            /\ Goto("channel")
       ELSE /\ ci' = ci
            /\ Goto("service_end")
    /\ UNCHANGED <<services, days, channel_id, si, di, service_config,
                   services_cache, all_items, fetched, payloads, failed, errors,
                   exc, output_path, writes>>

\* Line 138 and the step of `for service_name in services`
EndService ==
    /\ UNCHANGED <<procVars, callVars>>
    /\ pc = "service_end"
    /\ IF si < Len(services)
       THEN /\ si' = si + 1
            /\ Goto("service")
       ELSE /\ si' = si
            /\ Goto("sort")
    /\ UNCHANGED <<services, days, channel_id, ci, di, service_config,
                   services_cache, all_items, all_programs, fetched, payloads,
                   failed, errors, exc, output_path, writes>>

\* Line 141
Sort ==
    /\ UNCHANGED <<procVars, callVars>>
    /\ pc = "sort"
    /\ IF SortRaises(all_programs)
       THEN /\ Raise("TypeError")
            /\ all_programs' = all_programs
       ELSE /\ all_programs' = SortPrograms(all_programs)
            /\ Goto("write")
            /\ exc' = exc
    /\ UNCHANGED <<services, days, channel_id, si, ci, di, service_config,
                   services_cache, all_items, fetched, payloads, failed, errors,
                   output_path, writes>>

\* Lines 144-151: write_xml receives the list; it raises on a record it cannot
\* format or when the file cannot be written, else returns the path.
Write ==
    /\ UNCHANGED <<procVars, callVars>>
    /\ pc = "write"
    /\ writes' = Append(writes, all_programs)
    /\ IF WriteRaises(all_programs)
       THEN /\ Raise("AttributeError")
            /\ output_path' = output_path
       ELSE \/ /\ Raise("OSError")
               /\ output_path' = output_path
            \/ /\ output_path' = "epg.xml"
               /\ Goto("finally")
               /\ exc' = exc
    /\ UNCHANGED <<services, days, channel_id, si, ci, di, service_config,
                   services_cache, all_items, all_programs, fetched, payloads,
                   failed, errors>>

\* interface_subtitle and interface_item belong to the terminal UI, which
\* epg_logger.py does not define: they print and do not raise.
TerminalUIRaises == FALSE

\* Lines 153-158: the finally block reads output_path (UnboundLocalError when
\* no assignment was reached, replacing the exception in flight), then the
\* exception in flight propagates or the function returns.
Finally ==
    /\ UNCHANGED <<procVars, callVars>>
    /\ pc = "finally"
    /\ IF TerminalUIRaises
       THEN /\ exc' = "AttributeError"
            /\ Goto("raised")
       ELSE IF output_path = Unbound
       THEN /\ exc' = "UnboundLocalError"
            /\ Goto("raised")
       ELSE /\ exc' = exc
            /\ Goto(IF exc = NoExc THEN "returned" ELSE "raised")
    /\ UNCHANGED <<services, days, channel_id, si, ci, di, service_config,
                   services_cache, all_items, all_programs, fetched, payloads,
                   failed, errors, output_path, writes>>

Done == pc \in {"returned", "raised"}

Next ==
    \/ Start
    \/ LoadService
    \/ BeginChannel
    \/ FetchDay
    \/ ProcessItems
    \/ EndService
    \/ Sort
    \/ Write
    \/ Finally

Spec == Init /\ [][Next]_vars


-----------------------------------------------------------------------------
(* EPGProcessor.process_program, one action per pass *)

\* The raw entries of the model: the fields the passes read
RawTitles ==
    {<<>>, NoneS,
     <<"Jornal">>, <<"Final">>, <<"Brasileirão">>, <<"Copa">>, <<"Futebol">>,
     <<"Campeonato Brasileiro", "-", "Flamengo", "x", "Palmeiras", "-", "Ao Vivo">>,
     <<"Campeonato Brasileiro", "-", "Flamengo", "X", "Palmeiras">>,
     <<"Corujão I", "-", "O Exterminador do Futuro">>,
     <<"Corujão I", "-", "Exterminador do Futuro", ",", "O">>,
     <<"Tela Quente", "-", "Destino", "Final">>,
     <<"TELA QUENTE", "-", "Matrix">>,
     <<"Supercine", "-", "Matrix">>,
     <<"Corujão I">>,
     <<"Vale a Pena Ver de Novo", "-", "O Clone">>,
     <<"Edição Especial">>,
     <<"Programa", "-", "Inédito">>,
     <<"Copa", "-", "Inédito">>,
     <<"Filme", "-", "Reprise">>,
     <<"Show", "-", "Reapresentação">>,
     <<"Jogo", "-", "VT">>,
     <<"Premiere Retrô">>,
     <<"Série", "T2", "Episódio 5">>,
     <<"Jogo", "25/12/2024">>,
     <<"Copa", "-", "Semifinal", "-", "Jogo De Volta">>,
     <<"Flamengo", "x", "Palmeiras", "-", "Brasileirão", ":", "Flamengo", "x", "Palmeiras">>,
     <<"INFOMERCIAL", "-", "Polishop">>,
     <<"Show da Fé">>,
     <<"Palavra Amiga">>,
     <<"Campeonato Paulista", "-", "Santos", "x", "Corinthians">>,
     <<"Campeonato Paulista">>,
     <<"Edição Das 18h">>,
     <<"Tvz">>,
     <<"Sul-americana">>}

RawSubtitles ==
    {NoneS, <<>>,
     <<"Flamengo", "x", "Palmeiras">>,
     <<"Flamengo", "X", "Palmeiras", "-", "Globoplay">>,
     <<"Copa", "-", "Santos", "x", "Corinthians">>,
     <<"Estádio", "-", "Tóquio, Japão">>,
     <<"Capítulo 12">>,
     <<"Oitavas De Final", "-", "Jogo De Ida">>,
     <<"Jornal">>}

\* live, rating, genre and description vary together
RawExtras ==
    {[live |-> NoneStr, rating |-> NoneStr, genre |-> NoneStr, description |-> NoneS],
     [live |-> TrueStr, rating |-> NoneStr, genre |-> NoneStr, description |-> NoneS],
     [live |-> NoneStr, rating |-> "AGE87", genre |-> "Esporte",
      description |-> <<"Sinopse", "[14+]">>],
     [live |-> NoneStr, rating |-> "[14]", genre |-> "Filme", description |-> <<"Sinopse">>],
     [live |-> NoneStr, rating |-> "SC", genre |-> NoneStr, description |-> NoneS],
     [live |-> NoneStr, rating |-> "14 anos", genre |-> NoneStr, description |-> NoneS]}

\* Every channel, title and subtitle; a rating, genre and description come
\* with the entries that have no subtitle or a confrontation for one
RawPrograms ==
    {r \in {[channel |-> ch, title |-> t, subtitle |-> s, live |-> x.live,
             rating |-> x.rating, genre |-> x.genre, description |-> x.description,
             season |-> NoneInt, episode |-> NoneInt] :
               ch \in Channels, t \in RawTitles, s \in RawSubtitles, x \in RawExtras} :
        r.rating = NoneStr \/ r.subtitle \in {NoneS, <<"Flamengo", "x", "Palmeiras">>}}

\* f"Programação {channel}"
Placeholder(channel) == <<"Programação", channel>>

\* A mutation of build_record: the test of line 65 is dropped
build_record_keeps_title(raw) == new_record(raw)

\* Lines 36-66: the dict, and the placeholder for a falsy title
build_record(raw) ==
    IF Falsy(new_record(raw).title)
    THEN [new_record(raw) EXCEPT !.title = Placeholder(raw.channel)]
    ELSE new_record(raw)

\* The run variables while process_program alone is examined
RunIdle ==
    /\ pc = "process_program"
    /\ services = <<>> /\ days = 0 /\ channel_id = 0
    /\ si = 0 /\ ci = 0 /\ di = 0
    /\ service_config = Unbound
    /\ services_cache = {}
    /\ all_items = <<>> /\ all_programs = <<>>
    /\ fetched = <<>> /\ payloads = <<>> /\ failed = <<>>
    /\ errors = 0
    /\ exc = NoExc
    /\ output_path = Unbound
    /\ writes = <<>>
    /\ visited = {}

InitProc ==
    /\ RunIdle
    /\ stage = "called"
    /\ raw_program \in RawPrograms
    /\ spa \in BOOLEAN
    /\ mappings \in MappingFiles
    /\ prog = new_record(NoRaw)
    /\ perr = NoExc
    /\ handlers = <<>>
    /\ CallIdle

\* One pass: prog becomes f(prog) and control moves on
Pass(to, result) ==
    /\ prog' = result
    /\ stage' = to
    /\ UNCHANGED <<raw_program, spa, mappings, perr, handlers>>
    /\ UNCHANGED <<runVars, callVars>>

\* A pass raises: process_program ends with the exception
PassRaises(type) ==
    /\ stage' = "raised"
    /\ perr' = type
    /\ UNCHANGED <<raw_program, spa, mappings, prog, handlers>>
    /\ UNCHANGED <<runVars, callVars>>

BuildRecord ==
    /\ stage = "called"
    /\ Pass("date", build_record(raw_program))

ExtractDate ==
    /\ stage = "date"
    /\ IF extract_date_raises(prog) # NoExc
       THEN PassRaises(extract_date_raises(prog))
       ELSE Pass("season_episode", extract_date(prog))

ExtractSeasonEpisode ==
    /\ stage = "season_episode"
    /\ Pass("phase", extract_season_episode(prog))

ExtractPhase ==
    /\ stage = "phase"
    /\ Pass("location", extract_phase(prog))

ExtractLocation ==
    /\ stage = "location"
    /\ Pass("inverted", extract_location(prog))

NormalizeInvertedTitle ==
    /\ stage = "inverted"
    /\ Pass("live", normalize_inverted_title(prog))

DetectLiveStatus ==
    /\ stage = "live"
    /\ IF detect_live_status_raises(prog) # NoExc
       THEN PassRaises(detect_live_status_raises(prog))
       ELSE Pass("channel", detect_live_status(prog))

\* spa is True exactly when the import of line 11 succeeded; the result of the
\* schedule lookup is any of SearchResults
ProcessByChannel ==
    /\ stage = "channel"
    /\ handlers' = handlers_run(raw_program.channel)
    /\ IF process_by_channel_raises(prog, raw_program.channel, spa) # NoExc
       THEN /\ stage' = "raised"
            /\ perr' = process_by_channel_raises(prog, raw_program.channel, spa)
            /\ UNCHANGED prog
       ELSE /\ \E r \in SearchResults :
                   prog' = process_by_channel(prog, raw_program.channel, spa, r)
            /\ stage' = "mapping"
            /\ UNCHANGED perr
    /\ UNCHANGED <<raw_program, spa, mappings>>
    /\ UNCHANGED <<runVars, callVars>>

MapCompetitionsPrograms ==
    /\ stage = "mapping"
    /\ Pass("genre", map_competitions_programs(prog, raw_program.channel, mappings))

MapGenre ==
    /\ stage = "genre"
    /\ Pass("rating", map_genre(prog, mappings))

NormalizeRating ==
    /\ stage = "rating"
    /\ Pass("output", normalize_rating(prog))

ProcessOutput ==
    /\ stage = "output"
    /\ Pass("returned", process_output(prog))

NextProc ==
    \/ BuildRecord
    \/ ExtractDate
    \/ ExtractSeasonEpisode
    \/ ExtractPhase
    \/ ExtractLocation
    \/ NormalizeInvertedTitle
    \/ DetectLiveStatus
    \/ ProcessByChannel
    \/ MapCompetitionsPrograms
    \/ MapGenre
    \/ NormalizeRating
    \/ ProcessOutput

SpecProc == InitProc /\ [][NextProc]_vars

-----------------------------------------------------------------------------
(* grab_epg from line 141: the sort, the writer and the finally block, for   *)
(* every bounded list of records in all_programs                              *)

Records ==
    [uid : 1..MaxPrograms, channel : 1..MaxChannel, start_time : (0 - 1)..MaxTime]

\* Lists of at most MaxPrograms records; uid is the position before the sort
RecordLists ==
    UNION {{s \in [1..n -> Records] : \A i \in 1..n : s[i].uid = i} : n \in 0..MaxPrograms}

InitRender ==
    /\ pc = "sort"
    /\ services = <<>> /\ days = 0 /\ channel_id = 0
    /\ si = 0 /\ ci = 0 /\ di = 0
    /\ service_config = Unbound
    /\ services_cache = {}
    /\ all_items = <<>>
    /\ all_programs \in RecordLists
    /\ fetched = <<>> /\ payloads = <<>> /\ failed = <<>>
    /\ errors = 0
    /\ exc = NoExc
    /\ output_path = Unbound
    /\ writes = <<>>
    /\ visited = {"sort"}
    /\ ProcIdle
    /\ CallIdle

NextRender ==
    \/ Sort
    \/ Write
    \/ Finally

SpecRender == InitRender /\ [][NextRender]_vars

-----------------------------------------------------------------------------
(* Properties of grab_epg *)

\* C1: a failure at one (service, channel, day) iteration never aborts the
\* run: a finished run that logged a failure has reached the final sort.
FailureNeverAborts ==
    (Done /\ failed # <<>>) => "sort" \in visited

\* The days of the day range of service s that come after day d
LaterDays(s, d) ==
    {day_range(cfg_of(s), days)[i] : i \in 1..Len(day_range(cfg_of(s), days))}
        \cap {x \in 0..(MaxDays + 1) : x > d}

WasFetched(s, chan, d) ==
    \E i \in 1..Len(fetched) :
        fetched[i] = <<s, list_id_channel(cfg_of(s), chan), d>>

\* C2: after a failure at (channel, day d), every later day of the day range
\* of that channel is still fetched by the time the run ends.
LaterDaysFetched ==
    Done => \A i \in 1..Len(failed) :
                \A d \in LaterDays(failed[i][1], failed[i][3]) :
                    WasFetched(failed[i][1], failed[i][2], d)

\* C3: every run that got as far as fetching, also one with a failed iteration
\* or a failed later stage, has invoked the writer with the collected records
\* by the time it ends.
WriterAlwaysInvoked ==
    (Done /\ fetched # <<>>) => (Len(writes) = 1 /\ writes[1] = all_programs)

IsSorted(s) == \A i \in 1..(Len(s) - 1) : KeyLE(s[i], s[i + 1])

\* C4: every list the writer receives is in non-decreasing order of
\* (channel, start_time).
WrittenListSorted ==
    \A i \in 1..Len(writes) : IsSorted(writes[i])

\* A list reached the writer in another order than the one it was built in
WrittenListReordered ==
    \E i \in 1..Len(writes) :
        /\ Len(writes[i]) >= 2
        /\ \E j \in 1..(Len(writes[i]) - 1) : writes[i][j].uid > writes[i][j + 1].uid

\* C5: every titled raw entry of a fetched payload has exactly one record in
\* the list handed to the writer, and that list holds nothing else.
EntriesReachWriter ==
    Done =>
        \A i \in 1..Len(payloads) : \A k \in 1..Len(payloads[i]) :
            payloads[i][k].has_title =>
                /\ Len(writes) = 1
                /\ Cardinality({j \in 1..Len(writes[1]) :
                                    writes[1][j].uid = payloads[i][k].uid}) = 1

-----------------------------------------------------------------------------
(* Properties of process_program *)

Finished == stage \in {"returned", "raised"}

\* C6: the title of every record process_program returns is non-empty.
TitleNeverEmpty ==
    stage = "returned" => prog.title # <<>>

IsSportsChannel(ch) == ChannelBranch(ch) \in {"sportv", "x sports"}

\* C8: without the schedule collaborator, a record on a sports channel whose
\* subtitle is a "Team x Team" confrontation is normalized without error, is
\* not enriched, and is typed "sports".
NoCollaboratorDegradesToSports ==
    (/\ Finished
     /\ ~spa
     /\ IsSportsChannel(raw_program.channel)
     /\ raw_program.subtitle = <<"Flamengo", "x", "Palmeiras">>)
        => /\ stage = "returned"
           /\ prog.competition = NoneS
           /\ prog.stadium = NoneS
           /\ prog.event_processor_type = "sports"

\* C9: without the collaborator, "Campeonato Brasileiro - Flamengo x
\* Palmeiras - Ao Vivo" with no subtitle on a sports channel comes back live,
\* typed "sports", titled "Campeonato Brasileiro: Flamengo x Palmeiras - ao
\* vivo" and with a null subtitle.
LiveMatchEndToEnd ==
    (/\ Finished
     /\ ~spa
     /\ IsSportsChannel(raw_program.channel)
     /\ raw_program.title = <<"Campeonato Brasileiro", "-", "Flamengo", "x",
                              "Palmeiras", "-", "Ao Vivo">>
     /\ Falsy(raw_program.subtitle))
        => /\ stage = "returned"
           /\ prog.live = TrueStr
           /\ prog.event_processor_type = "sports"
           /\ prog.title = <<"Campeonato Brasileiro", ":", "Flamengo", "x",
                             "Palmeiras", "-", "ao vivo">>
           /\ prog.subtitle = NoneS

\* C10: on a film-block channel, "<Block> - <Film>" with no subtitle comes
\* back typed "movie", titled "<Block>: <Film>" and with the subtitle cleared
\* (stated for entries without a live flag and an empty mappings file).
FilmBlockEndToEnd ==
    (/\ Finished
     /\ ChannelBranch(raw_program.channel) = "globo"
     /\ Len(raw_program.title) >= 3
     /\ raw_program.title[1] \in SESSOES_FILMES
     /\ raw_program.title[2] = "-"
     /\ Falsy(raw_program.subtitle)
     /\ raw_program.live = NoneStr
     /\ mappings = "none")
        => /\ stage = "returned"
           /\ prog.event_processor_type = "movie"
           /\ prog.title = <<raw_program.title[1], ":">>
                               \o SubSeq(raw_program.title, 3, Len(raw_program.title))
           /\ prog.subtitle = NoneS

-----------------------------------------------------------------------------
(* Per-broadcaster dispatch *)

DispatchRan == stage \in {"mapping", "genre", "rating", "output", "returned"}

ChainOrder == <<"sportv", "x sports", "record", "band", "globo", "news", "viva", "sbt">>

IsChainHandler(h) == \E i \in 1..Len(ChainOrder) : ChainOrder[i] = h

\* The channel name satisfies the test that guards handler h
HandlerTest(ch, h) ==
    CASE h = "local" -> ChanHas(ch, "local")
      [] h = "4k" -> ChanHas(ch, "4k")
      [] h = "sportv" -> \E k \in {"sportv", "premiere", "combate", "ge-tv"} : ChanHas(ch, k)
      [] h = "x sports" -> ChanHas(ch, "x sports")
      [] h = "record" -> ChanHas(ch, "record sp")
      [] h = "band" -> ChanHas(ch, "band sp")
      [] h = "globo" -> ChanHas(ch, "globo") /\ ~ChanHas(ch, "play") /\ ~ChanHas(ch, "news")
      [] h = "news" -> ChanHas(ch, "globonews") \/ ChanHas(ch, "news")
      [] h = "viva" -> ChanHas(ch, "viva") \/ ChanHas(ch, "multishow")
      [] h = "sbt" -> ChanHas(ch, "sbt")

Matching(ch, order) == {i \in 1..Len(order) : HandlerTest(ch, order[i])}

FirstMatching(ch, order) ==
    IF Matching(ch, order) = {} THEN <<>> ELSE <<order[MinOf(Matching(ch, order))]>>

\* C11: for every channel name the dispatch runs one handler only, the first
\* in the fixed order (local, 4k, sportv, x sports, record, band, globo, news,
\* viva, sbt) whose test the name satisfies; no record goes through two.
DispatchExclusive ==
    DispatchRan =>
        handlers = FirstMatching(raw_program.channel, <<"local", "4k">> \o ChainOrder)

\* C11, amended: of the handlers of the chain sportv .. sbt exactly the first
\* whose test holds runs (none when no test holds); the "local" and "4k" steps
\* are outside the chain and run before it whenever the name contains them.
ChainExclusive ==
    DispatchRan =>
        /\ SelectSeq(handlers, IsChainHandler)
               = FirstMatching(raw_program.channel, ChainOrder)
        /\ \A h \in {"local", "4k"} :
               HandlerTest(raw_program.channel, h)
                   <=> \E i \in 1..Len(handlers) : handlers[i] = h

SecondMatchSkipped ==
    /\ DispatchRan
    /\ raw_program.channel = "SBT News"
    /\ handlers = <<"news">>

-----------------------------------------------------------------------------
(* EPGConfig._normalize_path *)

\* A str is the sequence of its characters
MaxPathLen == 4
PathChars == {"a", "b", ".", "+", " "}
PathStrings == UNION {[1..n -> PathChars] : n \in 0..MaxPathLen}

\* str.replace("+", ".")
ReplacePlus(v) == [i \in 1..Len(v) |-> IF v[i] = "+" THEN "." ELSE v[i]]

Kth(S, k) == CHOOSE x \in S : Cardinality({y \in S : y < x}) = k - 1

\* str.split on the characters of seps: one part more than separators
SplitOn(v, seps) ==
    LET cuts == {i \in 1..Len(v) : v[i] \in seps}
        n == Cardinality(cuts)
        first(k) == IF k = 1 THEN 1 ELSE Kth(cuts, k - 1) + 1
        last(k) == IF k = n + 1 THEN Len(v) ELSE Kth(cuts, k) - 1
    IN  [k \in 1..(n + 1) |-> SubSeq(v, first(k), last(k))]

\* str.strip()
StripBlanks(t) ==
    LET ink == {i \in 1..Len(t) : t[i] # " "}
    IN  IF ink = {} THEN <<>> ELSE SubSeq(t, MinOf(ink), MaxOf(ink))

IsKey(t) == StripBlanks(t) # <<>>

\* [v.strip() for v in parts if v.strip()]
StripKeep(parts) ==
    LET kept == SelectSeq(parts, IsKey)
    IN  [i \in 1..Len(kept) |-> StripBlanks(kept[i])]

\* result.extend(...) over the items
ExtendAll(lists) ==
    LET F[i \in 0..Len(lists)] == IF i = 0 THEN <<>> ELSE F[i - 1] \o lists[i]
    IN  F[Len(lists)]

\* Lines 120-122: the str case
normalize_path_str(value) == StripKeep(SplitOn(ReplacePlus(value), {"."}))

\* A mutation of normalize_path_list: line 131 keeps the parts as they are
normalize_path_list_unstripped(value) ==
    SelectSeq(ExtendAll([i \in 1..Len(value) |-> SplitOn(ReplacePlus(value[i]), {"."})]),
              IsKey)

\* Lines 123-131: the list case, for str items
normalize_path_list(value) ==
    StripKeep(ExtendAll([i \in 1..Len(value) |-> SplitOn(ReplacePlus(value[i]), {"."})]))

\* The literal list that names the segments of a dotted path one by one
Segments(v) == SplitOn(v, {".", "+"})

InitPath ==
    /\ RunIdle
    /\ ProcIdle
    /\ call_pc = "normalize_path"
    /\ call_arg \in PathStrings
    /\ call_ret = <<>>

NormalizePathStr ==
    /\ call_pc = "normalize_path"
    /\ call_ret' = <<normalize_path_str(call_arg)>>
    /\ call_pc' = "normalize_path_list"
    /\ UNCHANGED <<call_arg, runVars, procVars>>

NormalizePathList ==
    /\ call_pc = "normalize_path_list"
    /\ call_ret' = Append(call_ret, normalize_path_list(Segments(call_arg)))
    /\ call_pc' = "path_done"
    /\ UNCHANGED <<call_arg, runVars, procVars>>

NextPath == NormalizePathStr \/ NormalizePathList

SpecPath == InitPath /\ [][NextPath]_vars

\* C12: a path written as a dotted string ("+" also separates, blanks may
\* surround a segment) and the same path written as the list of its segments
\* normalize to the same keys, each trimmed and none empty.
PathFormsAgree ==
    call_pc = "path_done" =>
        /\ call_ret[1] = call_ret[2]
        /\ \A i \in 1..Len(call_ret[1]) :
               call_ret[1][i] # <<>> /\ StripBlanks(call_ret[1][i]) = call_ret[1][i]

TwoKeysFromBothForms ==
    /\ call_pc = "path_done"
    /\ call_arg = <<"a", "+", " ", "b">>
    /\ call_ret[2] = << <<"a">>, <<"b">> >>

-----------------------------------------------------------------------------
(* EPGFetcher.extract_programs, _extract_field, _extract_program,            *)
(* _parse_datetime: the extractor itself, whatever calls it.                 *)

\* Decoded JSON: a value carries its Python type
PyNone == [t |-> "none"]
PyStr(x) == [t |-> "str", v |-> x]
PyInt(n) == [t |-> "int", v |-> n]
PyList(s) == [t |-> "list", v |-> s]
PyDict(f) == [t |-> "dict", v |-> f]
PyDatetime(x) == [t |-> "datetime", v |-> x]

\* bool(value)
Truthy(x) ==
    CASE x.t = "none" -> FALSE
      [] x.t = "str" -> x.v # ""
      [] x.t = "int" -> x.v # 0
      [] x.t = "list" -> x.v # <<>>
      [] x.t = "dict" -> DOMAIN x.v # {}
      [] OTHER -> TRUE

\* Lines 125-136
extract_field(data, path) ==
    LET F[i \in 0..Len(path)] ==
            IF i = 0 THEN [ok |-> TRUE, cur |-> data]
            ELSE IF F[i - 1].ok /\ F[i - 1].cur.t = "dict"
                    /\ path[i] \in DOMAIN F[i - 1].cur.v
                 THEN [ok |-> TRUE, cur |-> F[i - 1].cur.v[path[i]]]
                 ELSE [ok |-> FALSE, cur |-> PyNone]
    IN  IF path # <<>> /\ F[Len(path)].ok THEN F[Len(path)].cur ELSE PyNone

\* Texts that datetime.fromisoformat accepts
IsIsoText(x) == x \in {"2024-01-01T10:00:00"}

\* Line 167: int(dt_str) raises TypeError for None, a list or a dict; the
\* handlers of lines 172 and 177 catch ValueError only.
parse_datetime_raises(dt_str) ==
    IF dt_str.t \in {"none", "list", "dict"} THEN "TypeError" ELSE NoExc

\* Lines 162-191 for an int or a str, with a timezone name pytz knows
parse_datetime(dt_str) ==
    CASE dt_str.t = "int" -> PyDatetime(dt_str.v)
      [] dt_str.t = "str" /\ IsIsoText(dt_str.v) -> PyDatetime(dt_str.v)
      [] OTHER -> dt_str

\* Lines 142-144 and 150-151: the four calls of _parse_datetime
extract_program_raises(prog_data, config) ==
    IF parse_datetime_raises(extract_field(prog_data, config.start_time)) # NoExc
    THEN parse_datetime_raises(extract_field(prog_data, config.start_time))
    ELSE parse_datetime_raises(extract_field(prog_data, config.end_time))

\* Lines 145-158: the raw entry (the fields the descriptors of the model name)
extract_program(prog_data, config, channel) ==
    [channel |-> channel,
     title |-> extract_field(prog_data, config.program_title),
     subtitle |-> extract_field(prog_data, config.subtitle),
     start_time |-> parse_datetime(extract_field(prog_data, config.start_time)),
     end_time |-> parse_datetime(extract_field(prog_data, config.end_time))]

\* `level in current_data` for a dict; a list of dicts holds no str
PyIn(level, cur) == cur.t = "dict" /\ level \in DOMAIN cur.v

\* Lines 84-89: [found, value]; not found is the early `return programs`
walk_level_1(data, levels) ==
    LET F[i \in 0..Len(levels)] ==
            IF i = 0 THEN [found |-> TRUE, cur |-> data]
            ELSE IF F[i - 1].found /\ PyIn(levels[i], F[i - 1].cur)
                 THEN [found |-> TRUE, cur |-> F[i - 1].cur.v[levels[i]]]
                 ELSE [found |-> FALSE, cur |-> PyNone]
    IN  F[Len(levels)]

\* Lines 110-113: a level that is not there is skipped
walk_level_2(item, levels) ==
    LET F[i \in 0..Len(levels)] ==
            IF i = 0 THEN item
            ELSE IF PyIn(levels[i], F[i - 1]) THEN F[i - 1].v[levels[i]] ELSE F[i - 1]
    IN  F[Len(levels)]

\* Lines 92-93 and 115-116
AsList(x) == IF x.t = "list" THEN x.v ELSE <<x>>

\* str.lower() on the names of the model
LowerName(n) == IF n = "Globo" THEN "globo" ELSE n

\* a in b, for the names of the model
SubstringOf(a, b) == a = b \/ (a = "glo" /\ b \in {"globo", "Globo"})

\* ch in str(channel).lower(): the channel is lowered, the entry is not
ChannelNameHas(channel, ch) == channel.t = "str" /\ SubstringOf(ch, LowerName(channel.v))

\* Lines 98-100
item_channel(item, config) ==
    IF Truthy(extract_field(item, config.channel))
    THEN extract_field(item, config.channel)
    ELSE PyStr(config.name)

\* Lines 103-107
item_included(item, config) ==
    \/ config.target_channels = <<>>
    \/ \E i \in 1..Len(config.target_channels) :
           ChannelNameHas(item_channel(item, config), config.target_channels[i])

\* Lines 96-122 for the items of level 1: the program dicts reached, in order
programs_reached(items, config) ==
    ExtendAll([i \in 1..Len(items) |->
        IF item_included(items[i], config)
        THEN LET progs == AsList(walk_level_2(items[i], config.api_level_2))
             IN  [k \in 1..Len(progs) |->
                     [prog |-> progs[k], channel |-> item_channel(items[i], config)]]
        ELSE <<>>])

HasTitle(e) == Truthy(e.title)

\* Lines 70-123: the list returned, or the exception of the first entry that raises
extract_programs_of(data, config) ==
    IF ~walk_level_1(data, config.api_level_1).found
    THEN [raised |-> NoExc, programs |-> <<>>]
    ELSE LET reached == programs_reached(AsList(walk_level_1(data, config.api_level_1).cur),
                                         config)
             bad == {k \in 1..Len(reached) :
                        extract_program_raises(reached[k].prog, config) # NoExc}
         IN  IF bad # {}
             THEN [raised |-> extract_program_raises(reached[MinOf(bad)].prog, config),
                   programs |-> <<>>]
             ELSE [raised |-> NoExc,
                   programs |-> SelectSeq([k \in 1..Len(reached) |->
                                               extract_program(reached[k].prog, config,
                                                               reached[k].channel)],
                                          HasTitle)]


\* Descriptors: every path is either configured or left out
Descriptors ==
    [name : {"claro"},
     api_level_1 : {<<>>, <<"data">>},
     api_level_2 : {<<>>, <<"programs">>},
     channel : {<<>>, <<"channel">>},
     program_title : {<<>>, <<"title">>},
     subtitle : {<<>>, <<"sub">>},
     start_time : {<<>>, <<"start">>},
     end_time : {<<>>, <<"end">>},
     target_channels : {<<>>, <<"globo">>, <<"Globo">>, <<"glo">>}]

\* What the payload gives as the start of the entry
StartKinds == {"epoch", "iso", "text"}

StartValue(kind) ==
    CASE kind = "epoch" -> PyInt(17)
      [] kind = "iso" -> PyStr("2024-01-01T10:00:00")
      [] OTHER -> PyStr("amanhã")

\* A payload of one channel with one entry
PayloadOf(kind, titled) ==
    PyDict("data" :> PyList(<<
        PyDict(("channel" :> PyStr("Globo")) @@
               ("programs" :> PyList(<<
                   PyDict(("title" :> PyStr(IF titled THEN "Jornal" ELSE "")) @@
                          ("sub" :> PyStr("Edição")) @@
                          ("start" :> StartValue(kind)) @@
                          ("end" :> PyInt(18)))>>)))>>))

InitExtract ==
    /\ RunIdle
    /\ ProcIdle
    /\ call_pc = "extract_programs"
    /\ call_arg \in [config : Descriptors, start : StartKinds, titled : BOOLEAN]
    /\ call_ret = <<>>

ExtractPrograms ==
    /\ call_pc = "extract_programs"
    /\ call_ret' = extract_programs_of(PayloadOf(call_arg.start, call_arg.titled),
                                       call_arg.config)
    /\ call_pc' = IF call_ret'.raised = NoExc THEN "extract_returned" ELSE "extract_raised"
    /\ UNCHANGED <<call_arg, runVars, procVars>>

NextExtract == ExtractPrograms

SpecExtract == InitExtract /\ [][NextExtract]_vars

PathFields == {"api_level_1", "api_level_2", "channel", "program_title", "subtitle",
               "start_time", "end_time"}

ExtractEnded == call_pc \in {"extract_returned", "extract_raised"}

\* C13: with a descriptor in which some field path is missing or empty,
\* extracting the programs of a payload never raises, and the field of a
\* missing path is absent from every raw entry.
MissingPathsNeverRaise ==
    (ExtractEnded /\ \E f \in PathFields : call_arg.config[f] = <<>>)
        => /\ call_pc = "extract_returned"
           /\ \A k \in 1..Len(call_ret.programs) :
                  /\ call_arg.config.subtitle = <<>>
                         => call_ret.programs[k].subtitle.t = "none"
                  /\ call_arg.config.start_time = <<>>
                         => call_ret.programs[k].start_time.t = "none"
                  /\ call_arg.config.end_time = <<>>
                         => call_ret.programs[k].end_time.t = "none"

-----------------------------------------------------------------------------
(* EPGFetcher._parse_datetime, lines 166-171: an integer epoch.              *)
(* Python integers are unbounded: a number is the sequence of its base-1000  *)
(* digits, lowest first, so that v * 1000 and v / 1000 are shifts.           *)

MaxLimbs == 4
LimbDigits == {0, 1, 10, 700, 999}
EpochValues == UNION {[1..n -> LimbDigits] : n \in 1..MaxLimbs}

\* The number without its leading zero digits
BigNorm(v) ==
    LET nz == {i \in 1..Len(v) : v[i] # 0}
    IN  IF nz = {} THEN <<>> ELSE SubSeq(v, 1, MaxOf(nz))

\* a > b
BigGT(a, b) ==
    LET x == BigNorm(a)
        y == BigNorm(b)
        diff == {i \in 1..Len(x) : i <= Len(y) /\ x[i] # y[i]}
    IN  IF Len(x) # Len(y) THEN Len(x) > Len(y)
        ELSE diff # {} /\ x[MaxOf(diff)] > y[MaxOf(diff)]

Times1000(v) == <<0>> \o v

\* 10000000000 of line 168
EpochThreshold == <<0, 0, 0, 10>>

\* Lines 167-171: the unit the value is read in and the instant it names,
\* as whole seconds and milliseconds
parse_epoch(v) ==
    IF BigGT(v, EpochThreshold)
    THEN [unit |-> "ms", seconds |-> BigNorm(Tail(v)), millis |-> Head(v)]
    ELSE [unit |-> "s", seconds |-> BigNorm(v), millis |-> 0]

InitEpoch ==
    /\ RunIdle
    /\ ProcIdle
    /\ call_pc = "parse_seconds"
    /\ call_arg \in EpochValues
    /\ call_ret = <<>>

\* _parse_datetime(s)
ParseSeconds ==
    /\ call_pc = "parse_seconds"
    /\ call_ret' = <<parse_epoch(call_arg)>>
    /\ call_pc' = "parse_millis"
    /\ UNCHANGED <<call_arg, runVars, procVars>>

\* _parse_datetime(1000 * s)
ParseMillis ==
    /\ call_pc = "parse_millis"
    /\ call_ret' = Append(call_ret, parse_epoch(Times1000(call_arg)))
    /\ call_pc' = "epoch_done"
    /\ UNCHANGED <<call_arg, runVars, procVars>>

NextEpoch == ParseSeconds \/ ParseMillis

SpecEpoch == InitEpoch /\ [][NextEpoch]_vars

BigGE(a, b) == ~BigGT(b, a)

SameInstant(x, y) == x.seconds = y.seconds /\ x.millis = y.millis

\* C14: an integer epoch v is read as milliseconds exactly when v >= 10^10,
\* 10^10 itself included, so a seconds value s and 1000*s with
\* 1000*s >= 10^10 > s name the same instant.
EpochMillisFromThreshold ==
    call_pc = "epoch_done" =>
        /\ call_ret[1].unit = "ms" <=> BigGE(call_arg, EpochThreshold)
        /\ call_ret[2].unit = "ms" <=> BigGE(Times1000(call_arg), EpochThreshold)
        /\ (BigGE(Times1000(call_arg), EpochThreshold) /\ BigGT(EpochThreshold, call_arg))
               => SameInstant(call_ret[1], call_ret[2])

-----------------------------------------------------------------------------
(* EPGWriter.write_xml, lines 56-122: the children of one programme element. *)
(* A child is its tag and its text; a text is the sequence of its pieces.    *)

MaxSeason == 1
MaxEpisode == 4

Child(tag, text) == [tag |-> tag, text |-> text]

\* Lines 61-78: title, sub-title and desc, each for a truthy field
text_children(p) ==
    (IF Falsy(p.title) THEN <<>> ELSE <<Child("title", p.title)>>)
        \o (IF Falsy(p.subtitle) THEN <<>> ELSE <<Child("sub-title", p.subtitle)>>)
        \o (IF Falsy(p.description) THEN <<>> ELSE <<Child("desc", p.description)>>)

\* strptime(event_date, "%d/%m/%Y").strftime("%Y%m%d")
DateText(d) == IF d = "25/12/2024" THEN "20241225" ELSE d

\* Lines 80-96: length (the records of process_program carry no duration),
\* category and date
tag_children(p) ==
    (IF p.genre \in {NoneStr, ""} THEN <<>> ELSE <<Child("category", <<p.genre>>)>>)
        \o (IF p.event_date \in {NoneStr, ""} THEN <<>>
            ELSE <<Child("date", <<DateText(p.event_date)>>)>>)

\* prog.get(key) or "", then formatted by the f-string of line 106
NumberOrEmpty(n) == IF n = NoneInt \/ n = 0 THEN "" ELSE ToString(n)

\* Lines 99-106
episode_children(p) ==
    IF p.season # NoneInt \/ p.episode # NoneInt
    THEN <<Child("episode-num",
                 <<NumberOrEmpty(p.season), ".", NumberOrEmpty(p.episode), ".">>)>>
    ELSE <<>>

\* Lines 109-114
rating_children(p) ==
    IF p.rating \in {NoneStr, ""} THEN <<>>
    ELSE <<Child("rating", <<"[", p.rating, "]">>)>>

\* A mutation of status_children: three independent tests
status_children_independent(p) ==
    (IF p.rerun THEN <<Child("previously-shown", <<>>)>> ELSE <<>>)
        \o (IF p.premiere THEN <<Child("premiere", <<>>)>> ELSE <<>>)
        \o (IF p.live \notin {NoneStr, ""} THEN <<Child("new", <<>>)>> ELSE <<>>)

\* Lines 117-122
status_children(p) ==
    IF p.rerun THEN <<Child("previously-shown", <<>>)>>
    ELSE IF p.premiere THEN <<Child("premiere", <<>>)>>
    ELSE IF p.live \notin {NoneStr, ""} THEN <<Child("new", <<>>)>>
    ELSE <<>>

write_programme(p) ==
    text_children(p) \o tag_children(p) \o episode_children(p)
        \o rating_children(p) \o status_children(p)

\* Canonical records as the writer reads them
WriterRecords ==
    [title : {<<>>, <<"Jornal">>}, subtitle : {NoneS}, description : {NoneS},
     genre : {NoneStr}, event_date : {NoneStr, "25/12/2024"},
     season : {NoneInt} \cup 0..MaxSeason, episode : {NoneInt} \cup 0..MaxEpisode,
     rating : {NoneStr, "14"}, rerun : BOOLEAN, premiere : BOOLEAN,
     live : {NoneStr, TrueStr, "VT"}]

InitWrite ==
    /\ RunIdle
    /\ ProcIdle
    /\ call_pc = "write_programme"
    /\ call_arg \in WriterRecords
    /\ call_ret = <<>>

WriteProgramme ==
    /\ call_pc = "write_programme"
    /\ call_ret' = write_programme(call_arg)
    /\ call_pc' = "programme_written"
    /\ UNCHANGED <<call_arg, runVars, procVars>>

NextWrite == WriteProgramme

SpecWrite == InitWrite /\ [][NextWrite]_vars

IsEpisodeNum(c) == c.tag = "episode-num"

IsStatus(c) == c.tag \in {"previously-shown", "premiere", "new"}

\* C15: a record with zero-based season s >= 0 and episode e >= 0 is written
\* with an episode-num element whose text is "<s>.<e>.", both numbers present
\* (season 0 and episode 4 give "0.4.").
EpisodeNumBothNumbers ==
    (call_pc = "programme_written" /\ call_arg.season >= 0 /\ call_arg.episode >= 0)
        => SelectSeq(call_ret, IsEpisodeNum)
               = <<Child("episode-num", <<ToString(call_arg.season), ".",
                                          ToString(call_arg.episode), ".">>)>>

\* C16: every programme element carries exactly one status element:
\* previously-shown if rerun is set, otherwise premiere if premiere is set,
\* otherwise new.
ExactlyOneStatus ==
    call_pc = "programme_written" =>
        SelectSeq(call_ret, IsStatus)
            = <<Child(IF call_arg.rerun THEN "previously-shown"
                      ELSE IF call_arg.premiere THEN "premiere" ELSE "new", <<>>)>>

\* C16, amended: every programme element carries at most one status element,
\* as its last child: previously-shown if rerun is set, otherwise premiere if
\* premiere is set, otherwise new if live is set, otherwise none.
AtMostOneStatus ==
    call_pc = "programme_written" =>
        /\ Len(SelectSeq(call_ret, IsStatus)) <= 1
        /\ \A i \in 1..Len(call_ret) : IsStatus(call_ret[i]) => i = Len(call_ret)
        /\ \A i \in 1..Len(call_ret) :
               /\ call_ret[i].tag = "previously-shown" => call_arg.rerun
               /\ call_ret[i].tag = "premiere" => ~call_arg.rerun /\ call_arg.premiere
               /\ call_ret[i].tag = "new" =>
                      ~call_arg.rerun /\ ~call_arg.premiere /\ call_arg.live # NoneStr
        /\ (call_arg.rerun \/ call_arg.premiere \/ call_arg.live # NoneStr)
               => SelectSeq(call_ret, IsStatus) # <<>>

RerunOutranksPremiere ==
    /\ call_pc = "programme_written"
    /\ call_arg.rerun /\ call_arg.premiere /\ call_arg.live = TrueStr
    /\ SelectSeq(call_ret, IsStatus) = <<Child("previously-shown", <<>>)>>


-----------------------------------------------------------------------------
(* Rating classes *)

RatingClasses == {"L", "10", "12", "14", "16", "18", "AL"}

RatingNormalized == stage \in {"output", "returned"} /\ perr = NoExc

\* C17: after rating normalization the rating of a record is null or one of
\* the classes L, 10, 12, 14, 16, 18, AL; a token that is not a known code,
\* such as a known code followed by " anos", does not pass through unchanged
RatingIsClassOrNull ==
    RatingNormalized => prog.rating \in RatingClasses \cup {NoneStr}


-----------------------------------------------------------------------------
(* Leg and phase combined *)

\* The field _extract_phase works on: the first of title, subtitle with a phase
PhaseField(p) == IF PhaseIn(p.title) THEN "title" ELSE "subtitle"

LegsIn(text) == {k \in FoundPhases(text) : IsLeg(k)}
OthersIn(text) == {k \in FoundPhases(text) : ~IsLeg(k)}

\* The other phase with the least priority number
BestOther(text) ==
    CHOOSE k \in OthersIn(text) : \A j \in OthersIn(text) : PhasePriority(k) <= PhasePriority(j)

HasLegAndOther(p) ==
    /\ PhaseIn(p.title) \/ PhaseIn(p.subtitle)
    /\ LegsIn(p[PhaseField(p)]) # {}
    /\ OthersIn(p[PhaseField(p)]) # {}

\* C18: when the field that phase extraction works on holds a leg token and
\* another phase token, the phase becomes "<highest-priority other> - <leg>"
\* and no phase token is left in that field
LegCombinedWithBestOther ==
    [][(stage = "phase" /\ stage' = "location" /\ HasLegAndOther(prog)) =>
        /\ \E l \in LegsIn(prog[PhaseField(prog)]) :
               prog'.phase = <<PhaseText(BestOther(prog[PhaseField(prog)])), "-", PhaseText(l)>>
        /\ FoundPhases(prog'[PhaseField(prog)]) = {}]_vars

OitavasIdaCombined ==
    /\ stage = "location"
    /\ raw_program.subtitle = <<"Oitavas De Final", "-", "Jogo De Ida">>
    /\ ~PhaseIn(raw_program.title)
    /\ prog.phase = <<"Oitavas de Final", "-", "Jogo de Ida">>
    /\ prog.subtitle = <<>>


-----------------------------------------------------------------------------
(* EPGProcessor._extract_season_episode, applied twice *)

MaxFieldToks == 3

SeasonAlphabet == {"Show", "-", "T2", "Temporada 3", "Episódio 5", "Ep. 7"}

SeasonTitles == UNION {[1..n -> SeasonAlphabet] : n \in 0..MaxFieldToks}

SeasonSubtitles == {NoneS, <<"T2">>, <<"Temporada 3", "Ep. 7">>}

SeasonRecords ==
    [title : SeasonTitles, subtitle : SeasonSubtitles,
     season : {NoneInt}, episode : {NoneInt}]

InitSeason ==
    /\ RunIdle
    /\ ProcIdle
    /\ call_pc = "extract_season_episode"
    /\ call_arg \in SeasonRecords
    /\ call_ret = <<>>

\* The first application, on the record as it came
ExtractSeasonEpisodeOnce ==
    /\ call_pc = "extract_season_episode"
    /\ call_ret' = <<extract_season_episode(call_arg)>>
    /\ call_pc' = "extracted_once"
    /\ UNCHANGED <<call_arg, runVars, procVars>>

\* The second application, on the result of the first
ExtractSeasonEpisodeAgain ==
    /\ call_pc = "extracted_once"
    /\ call_ret' = Append(call_ret, extract_season_episode(call_ret[1]))
    /\ call_pc' = "extracted_twice"
    /\ UNCHANGED <<call_arg, runVars, procVars>>

NextSeason ==
    \/ ExtractSeasonEpisodeOnce
    \/ ExtractSeasonEpisodeAgain

SpecSeason == InitSeason /\ [][NextSeason]_vars

\* C19: season/episode extraction is idempotent: a second application, on the
\* record a first application cleaned, leaves title, subtitle, season and
\* episode as they were
SeasonEpisodeIdempotent ==
    call_pc = "extracted_twice" => call_ret[2] = call_ret[1]


-----------------------------------------------------------------------------
(* EPGProcessor._extract_date on its own *)

DateAlphabet == {"Jogo", "-"} \cup DateToks

DateTitles == UNION {[1..n -> DateAlphabet] : n \in 0..MaxFieldToks}

DateSubtitles == {NoneS, <<"Final">>} \cup {<<"Final", t>> : t \in DateToks}

DateRecords == [title : DateTitles, subtitle : DateSubtitles, event_date : {NoneStr}]

InitDate ==
    /\ RunIdle
    /\ ProcIdle
    /\ call_pc = "extract_date"
    /\ call_arg \in DateRecords
    /\ call_ret = <<>>

ExtractDateReturns ==
    /\ call_pc = "extract_date"
    /\ extract_date_raises(call_arg) = NoExc
    /\ call_ret' = <<extract_date(call_arg)>>
    /\ call_pc' = "date_returned"
    /\ UNCHANGED <<call_arg, runVars, procVars>>

ExtractDateRaises ==
    /\ call_pc = "extract_date"
    /\ extract_date_raises(call_arg) # NoExc
    /\ call_ret' = <<extract_date_raises(call_arg)>>
    /\ call_pc' = "date_raised"
    /\ UNCHANGED <<call_arg, runVars, procVars>>

NextDate ==
    \/ ExtractDateReturns
    \/ ExtractDateRaises

SpecDate == InitDate /\ [][NextDate]_vars

HasDateToken(text) == ~Falsy(text) /\ \E i \in 1..Len(text) : text[i] \in DateToks

FirstDateToken(text) == text[MinOf({i \in 1..Len(text) : text[i] \in DateToks})]

\* The calendar date a token denotes, as dd/mm/YYYY
CalendarDate(t) ==
    CASE t = "25/12/2024" -> "25/12/2024"
      [] t = "010223" -> "01/02/2023"
      [] OTHER -> "05/01/2024"

\* The date the pass is to leave in event_date: the subtitle's when the
\* subtitle has a token, else the title's
LastDate(p) ==
    IF HasDateToken(p.subtitle) THEN CalendarDate(FirstDateToken(p.subtitle))
    ELSE CalendarDate(FirstDateToken(p.title))

DateStripped(before, after) ==
    HasDateToken(before) => \A i \in 1..Len(after) : after[i] # FirstDateToken(before)

\* C20: date extraction scans the title and then the subtitle: when both hold
\* a date token both tokens are stripped and event_date is the subtitle's
\* date; when one field holds a token, event_date is that token's date
LastDateWins ==
    (call_pc \in {"date_returned", "date_raised"}
        /\ (HasDateToken(call_arg.title) \/ HasDateToken(call_arg.subtitle)))
    => /\ call_pc = "date_returned"
       /\ call_ret[1].event_date = LastDate(call_arg)
       /\ DateStripped(call_arg.title, call_ret[1].title)
       /\ DateStripped(call_arg.subtitle, call_ret[1].subtitle)


-----------------------------------------------------------------------------
(* The competitions table before the programs table *)

\* Where the competitions table hit: on the competition field when it is set
\* and known, else on the title, else nowhere
CompetitionsHit(p, m) ==
    IF p.competition # NoneS /\ competitions_map(m, p.competition) # NoneS
    THEN "competition"
    ELSE IF competitions_map(m, p.title) # NoneS THEN "title"
    ELSE "none"

MappingStep == stage = "mapping" /\ stage' = "genre"

\* C21: the programs table rewrites the title only when the lookup in the
\* competitions table missed; on a hit the final title is the one the
\* competitions table gives, also when the programs table knows the title
ProgramsTableOnlyOnMiss ==
    [][MappingStep =>
        /\ CompetitionsHit(prog, mappings) = "title" =>
               prog'.title = get_competition_mapping(mappings, prog.title).name
        /\ CompetitionsHit(prog, mappings) = "competition" =>
               prog'.title = prog.title]_vars


-----------------------------------------------------------------------------
(* live = "VT" on the highlight-reel channels *)

\* C22: on a highlight-reel channel the mapping pass writes live = "VT" only
\* when the competitions table hit and the record has no live flag; a live
\* flag set before (true, "Retrô", "reprise", a premiere marker) is kept
LiveFlagKeptByMapping ==
    [][MappingStep =>
        /\ prog.live # NoneStr => prog'.live = prog.live
        /\ prog'.live # prog.live =>
               /\ prog'.live = "VT"
               /\ IsHighlightChannel(raw_program.channel)
               /\ CompetitionsHit(prog, mappings) # "none"]_vars


-----------------------------------------------------------------------------
(* Rerun detection and the live flag *)

LiveStep == stage = "live" /\ stage' = "channel"

\* "- <word>" stands in the title, whatever the case of the word
HasDashWord(s, w) ==
    ~Falsy(s) /\ \E i \in 1..(Len(s) - 1) : s[i] = "-" /\ Lower(s[i + 1]) = w

\* A VT variant: "VT - " or " - VT"
HasVT(s) == ~Falsy(s) /\ (RerunIdx(s, 1) # {} \/ RerunIdx(s, 2) # {})

HasRetroWord(s) == ~Falsy(s) /\ \E i \in 1..Len(s) : HasRetro(s[i])

RepriseVariant(s) == HasDashWord(s, "reprise") \/ HasDashWord(s, "reapresentação")

\* C23: a title with a reprise or a reapresentação variant gets rerun = true
\* and live = "reprise"; a title with a VT or retrô variant gets rerun = true
\* and keeps the live value the premiere pass left
RepriseAndReapresentacaoAlike ==
    [][LiveStep =>
        /\ (RepriseVariant(prog.title) /\ ~HasVT(prog.title) /\ ~HasRetroWord(prog.title))
               => (prog'.rerun = TRUE /\ prog'.live = "reprise")
        /\ (HasVT(prog.title) /\ ~HasRetroWord(prog.title))
               => (prog'.rerun = TRUE /\ prog'.live = detect_premiere(detect_live(prog)).live)]_vars


-----------------------------------------------------------------------------
(* The channel allow-list *)

\* The channel id of the level-1 item of the payload
ChannelIdOf(config) == IF config.channel = <<"channel">> THEN "Globo" ELSE config.name

\* Some entry is a substring of the channel id, both sides lowered
AllowedIgnoringCase(name, entries) ==
    \/ entries = <<>>
    \/ \E i \in 1..Len(entries) : SubstringOf(LowerName(entries[i]), LowerName(name))

\* The payload's entry is returned whenever its item is kept
ItemYieldsEntry ==
    /\ call_pc = "extract_returned"
    /\ call_arg.titled
    /\ call_arg.config.api_level_1 = <<"data">>
    /\ call_arg.config.api_level_2 = <<"programs">>
    /\ call_arg.config.program_title = <<"title">>

\* C24: a level-1 item is kept exactly when the allow-list is empty or some
\* entry is a substring of the item's channel id, both compared without
\* regard to case (an entry written with capitals still matches)
AllowListIgnoresCase ==
    ItemYieldsEntry =>
        (call_ret.programs # <<>> <=>
            AllowedIgnoringCase(ChannelIdOf(call_arg.config), call_arg.config.target_channels))


-----------------------------------------------------------------------------
(* A service without a file *)

FetchedFor(s) == {j \in 1..Len(fetched) : fetched[j][1] = s}

\* C25: a service whose file is missing raises at once, before any fetch for
\* it, and is fatal for that service only: the service cache is left as it
\* was and the other services of the run are still processed
MissingServiceIsolated ==
    Done => \A i \in 1..Len(services) :
        ~cfg_of(services[i]).exists =>
            /\ FetchedFor(services[i]) = {}
            /\ services[i] \notin services_cache
            /\ \A k \in (i + 1)..Len(services) :
                   cfg_of(services[k]).exists => services[k] \in services_cache


-----------------------------------------------------------------------------
(* The order of the fetches *)

\* The fetches of one service: its channels in order and, for each, the days
\* of its day range in order
FetchPlanOf(s) ==
    LET cfg == cfg_of(s)
        chans == channel_list(cfg, channel_id)
        range == day_range(cfg, days)
    IN  ExtendAll([c \in 1..Len(chans) |->
            [d \in 1..Len(range) |-> <<s, list_id_channel(cfg, chans[c]), range[d]>>]])

FetchPlan == ExtendAll([i \in 1..Len(services) |-> FetchPlanOf(services[i])])

\* Every service has a file and no fetch failed
NothingFailedToFetch ==
    /\ \A i \in 1..Len(services) : cfg_of(services[i]).exists
    /\ Len(payloads) = Len(fetched)

\* C26: the fetches are issued one after the other, services, then channels,
\* then days, one per (service, channel or batch, day): the last day alone for
\* a no_loop service, else the days 0..N in ascending order
FetchesFollowPlan ==
    (Done /\ fetched # <<>> /\ NothingFailedToFetch) => fetched = FetchPlan


-----------------------------------------------------------------------------
(* The finally block *)

\* C27: the finally block of grab_epg reads only values that every path has
\* defined: when the try block is left before the writer returned a path, the
\* cleanup raises no new error in place of the one in flight
CleanupKeepsException ==
    [][(pc = "finally" /\ output_path = Unbound) => exc' = exc]_vars


-----------------------------------------------------------------------------
(* The event-date suffix *)

HasDateSuffix(text) ==
    ~Falsy(text) /\ \E i \in 1..Len(text) : text[i] \in {"realizado em", ", realizado em"}

\* C28: in every record that output composition returns, the event-date
\* suffix "realizado em dd/mm/yyyy" stands in at most one of subtitle and
\* description, whatever the event_processor_type, football included
DateSuffixOnlyOnce ==
    stage = "returned" => ~(HasDateSuffix(prog.subtitle) /\ HasDateSuffix(prog.description))


-----------------------------------------------------------------------------
(* Absent values in the composed title *)

ComposedTypes == {"football", "series", "movie", "merge", "egrem"}

\* C29: the final title of a record tagged football, series, movie, merge or
\* egrem is made of values that are there: an absent subtitle, home team or
\* away team never shows in it as the text "None"
NoNoneInTitle ==
    (stage = "returned" /\ prog.event_processor_type \in ComposedTypes)
        => \A i \in 1..Len(prog.title) : prog.title[i] # "None"


-----------------------------------------------------------------------------
(* The tag between dispatch and output composition *)

DispatchTypes == {"program", "football", "sports", "series", "movie", "egrem"}

\* A step of the mapping, genre or rating pass
BetweenDispatchAndOutput ==
    \/ stage = "mapping" /\ stage' = "genre"
    \/ stage = "genre" /\ stage' = "rating"
    \/ stage = "rating" /\ stage' = "output"

\* C30: the competition/program mapping, the genre mapping and the rating
\* normalization leave event_processor_type as it is: output composition
\* reads the tag the dispatch set, and it is one of program, football,
\* sports, series, movie, egrem
TagKeptUntilOutput ==
    [][/\ BetweenDispatchAndOutput =>
              prog'.event_processor_type = prog.event_processor_type
       /\ stage' = "output" => prog'.event_processor_type \in DispatchTypes]_vars

SportsTagReachesOutput ==
    /\ stage = "output"
    /\ mappings = "sample"
    /\ prog.event_processor_type \in {"football", "sports"}
    /\ prog.title = <<"Copa do Brasil">>

=============================================================================
